---- MODULE Spec2Model ----
(***************************************************************************)
(* Verification model of the photoframe caching engine.                    *)
(*                                                                         *)
(*   Part I   server/cache/__init__.py : _TTLCache / CacheStore, the       *)
(*            asyncio single-flight TTL cache with stale-while-revalidate  *)
(*            (specification SpecTTL).                                     *)
(*   Part II  server/cache/{memory,files,sqlite}.py and CacheManager, the  *)
(*            three-tier write-through cache (specification SpecCM).       *)
(*   Part III server/renderer/pipeline.py : RendererPipeline.render and    *)
(*            apply_palette (specifications SpecRP and SpecAP).            *)
(***************************************************************************)
EXTENDS Integers, Sequences, FiniteSets, TLC

VARIABLES now, entries, locks, callers, refreshers, loads, epoch,
          cfg, mem, files, db,
          recent,
          stat, cache_dir, image_dir, result, raised,
          quantized,
          threads

ttlVars == <<entries, locks, callers, refreshers, loads, epoch>>
cmVars == <<cfg, mem, files, db>>
rpVars == <<stat, cache_dir, image_dir, result, raised, quantized, threads>>
extVars == <<recent, rpVars>>
vars == <<now, entries, locks, callers, refreshers, loads, epoch, cfg, mem, files, db,
          recent, stat, cache_dir, image_dir, result, raised, quantized, threads>>

(***************************************************************************)
(* Bounds of the model.                                                    *)
(***************************************************************************)
NumCallers == 3
MaxRefresh == 2
MaxLoads == 3
MaxTime == 2
NumThreads == 3

None == "None"

\* (namespace, key) identities handled by CacheStore: one _TTLCache per
\* namespace, one entry and one lock per key.
Keys == {"ns/k1", "ns/k2"}
FirstKey == "ns/k1"
Callers == 1..NumCallers
Refreshers == 1..MaxRefresh

\* (ttl, stale_ttl) arguments a caller may pass.
ArgChoices ==
    { [ttl |-> -1, stale_ttl |-> 0],
      [ttl |-> 1,  stale_ttl |-> 3],
      [ttl |-> 2,  stale_ttl |-> 1] }
NoArgs == [ttl |-> 0, stale_ttl |-> 0]

Max2(a, b) == IF a >= b THEN a ELSE b

(***************************************************************************)
(* Part I.  _TTLCache                                                      *)
(***************************************************************************)

\* self._entries.get(key) when the key has no entry
NoEntry == [present |-> FALSE, value |-> 0, expires_at |-> 0, stale_at |-> 0]

\* CacheEntry.is_fresh
is_fresh(e, t) == e.expires_at > t

\* CacheEntry.is_stale
is_stale(e, t) == e.stale_at > t

\* CacheEntry(value, now + max(ttl, 0), now + max(stale_ttl, ttl, 0))
NewEntry(value, t, a) ==
    [ present |-> TRUE,
      value |-> value,
      expires_at |-> t + Max2(a.ttl, 0),
      stale_at |-> t + Max2(Max2(a.stale_ttl, a.ttl), 0) ]

\* The state of the entry a call finds, as section 4.2 of the design names it.
Klass(e, t) ==
    IF e = NoEntry THEN "absent"
    ELSE IF t < e.expires_at THEN "fresh"
    ELSE IF t < e.stale_at THEN "stale"
    ELSE "expired"

RouteFreshAsStale(e, t) ==
    IF e # NoEntry /\ is_stale(e, t) THEN "stale" ELSE "lock"

RouteNoStale(e, t) ==
    IF e # NoEntry /\ is_fresh(e, t) THEN "fresh" ELSE "lock"

\* get_or_load, lines 66-74: which of the three paths the call takes.
Route(e, t) ==
    IF e # NoEntry /\ is_fresh(e, t) THEN "fresh"
    ELSE IF e # NoEntry /\ is_stale(e, t) THEN "stale"
    ELSE "lock"

NewLock == [locked |-> FALSE, waiters |-> <<>>]

CanAcquireAlways(l) == TRUE

\* asyncio.Lock.acquire without suspending: the lock is free and nobody queues.
CanAcquire(l) == ~l.locked /\ l.waiters = <<>>

AcquiredNot(l) == l

Acquired(l) == [l EXCEPT !.locked = TRUE]

Enqueued(l, task) == [l EXCEPT !.waiters = Append(@, task)]

ReleasedStillLocked(l) == l

\* leaving "async with lock"
Released(l) == [l EXCEPT !.locked = FALSE]

\* _schedule_refresh, lines 101-104: a refresh is scheduled unless the lock is held.
RefreshNeeded(l) == ~l.locked

IdleCaller ==
    [pc |-> "idle", key |-> None, klass |-> None, result |-> 0,
     t0 |-> 0, ld |-> 0, args |-> NoArgs, waited |-> FALSE, prev |-> FALSE]

FreeRefresher ==
    [pc |-> "free", key |-> None, epoch |-> 0, ld |-> 0, args |-> NoArgs]

CTask(c) == <<"c", c>>
RTask(r) == <<"r", r>>

\* loader invocations in flight for key k
Loading(k) ==
    { CTask(c) : c \in { x \in Callers : callers[x].pc = "loading" /\ callers[x].key = k } }
    \cup
    { RTask(r) : r \in { x \in Refreshers : refreshers[x].pc = "loading" /\ refreshers[x].key = k } }

FreeSlots == { r \in Refreshers : refreshers[r].pc = "free" }

NextSlot == CHOOSE r \in FreeSlots : \A q \in FreeSlots : r <= q

RecheckNever(e, t) == FALSE

\* get_or_load, lines 77-80: the re-check made once the lock is held.
Recheck(e, t) == e # NoEntry /\ is_fresh(e, t)

\* get_or_load, lines 76-82: the body of "async with lock", entered by caller c
\* holding lock lk, up to the await of the loader.
LockedSection(c, k, rec, lk) ==
    IF Recheck(entries[k], now)
    THEN /\ callers' = [callers EXCEPT ![c] =
                [rec EXCEPT !.pc = "done", !.result = entries[k].value, !.args = NoArgs]]
         /\ locks' = [locks EXCEPT ![k] = Released(lk)]
         /\ UNCHANGED loads
    ELSE /\ loads[k] < MaxLoads
         /\ loads' = [loads EXCEPT ![k] = @ + 1]
         /\ callers' = [callers EXCEPT ![c] =
                [rec EXCEPT !.pc = "loading", !.t0 = now, !.ld = loads[k] + 1,
                            !.prev = entries[k].present]]
         /\ locks' = [locks EXCEPT ![k] = lk]

\* _schedule_refresh, lines 94-129: called synchronously by a stale read; the
\* refresh task is created (loop.create_task) but has not run yet.
ScheduleRefresh(k, a) ==
    IF RefreshNeeded(locks[k])
    THEN /\ FreeSlots # {}
         /\ refreshers' = [refreshers EXCEPT ![NextSlot] =
                [pc |-> "scheduled", key |-> k, epoch |-> epoch[k], ld |-> 0, args |-> a]]
    ELSE UNCHANGED refreshers

\* get_or_load, lines 59-82, from the call to its first suspension point.
GetOrLoad(c, k, a) ==
    /\ callers[c].pc = "idle"
    /\ IF c = 1 THEN k = FirstKey ELSE callers[c - 1].pc # "idle"
    /\ LET e == entries[k]
           rec == [IdleCaller EXCEPT !.key = k, !.klass = Klass(e, now)]
       IN CASE Route(e, now) = "fresh" ->
                 /\ callers' = [callers EXCEPT ![c] =
                        [rec EXCEPT !.pc = "done", !.result = e.value]]
                 /\ UNCHANGED <<locks, refreshers, loads>>
            [] Route(e, now) = "stale" ->
                 /\ ScheduleRefresh(k, a)
                 /\ callers' = [callers EXCEPT ![c] =
                        [rec EXCEPT !.pc = "done", !.result = e.value]]
                 /\ UNCHANGED <<locks, loads>>
            [] OTHER ->
                 /\ IF CanAcquire(locks[k])
                    THEN LockedSection(c, k, [rec EXCEPT !.args = a], Acquired(locks[k]))
                    ELSE /\ callers' = [callers EXCEPT ![c] =
                                [rec EXCEPT !.pc = "waiting", !.args = a, !.waited = TRUE]]
                         /\ locks' = [locks EXCEPT ![k] = Enqueued(@, CTask(c))]
                         /\ UNCHANGED loads
                 /\ UNCHANGED refreshers
    /\ UNCHANGED <<cmVars, extVars, now, entries, epoch>>

\* A caller queued on the lock is woken (the lock was released and it is the
\* first waiter), takes the lock and runs the locked section.
CallerWake(c) ==
    /\ callers[c].pc = "waiting"
    /\ LET k == callers[c].key
           l == locks[k]
       IN /\ ~l.locked
          /\ l.waiters # <<>>
          /\ Head(l.waiters) = CTask(c)
          /\ LockedSection(c, k, callers[c], Acquired([l EXCEPT !.waiters = Tail(@)]))
    /\ UNCHANGED <<cmVars, extVars, now, entries, refreshers, epoch>>

\* get_or_load, lines 82-88: the loader returns; the entry is stored with the
\* timestamp taken at line 78, before the loader was awaited.
LoaderReturn(c) ==
    /\ callers[c].pc = "loading"
    /\ LET k == callers[c].key
       IN /\ entries' = [entries EXCEPT ![k] =
                 NewEntry(callers[c].ld, callers[c].t0, callers[c].args)]
          /\ locks' = [locks EXCEPT ![k] = Released(@)]
          /\ callers' = [callers EXCEPT ![c] =
                 [@ EXCEPT !.pc = "done", !.result = callers[c].ld,
                           !.t0 = 0, !.ld = 0, !.args = NoArgs, !.prev = FALSE]]
    /\ UNCHANGED <<cmVars, extVars, now, refreshers, loads, epoch>>

\* get_or_load, line 82: the loader raises; the exception leaves the
\* "async with" block (releasing the lock) and reaches the caller.
LoaderRaise(c) ==
    /\ callers[c].pc = "loading"
    /\ locks' = [locks EXCEPT ![callers[c].key] = Released(@)]
    /\ callers' = [callers EXCEPT ![c] =
           [@ EXCEPT !.pc = "raised", !.t0 = 0, !.ld = 0, !.args = NoArgs]]
    /\ UNCHANGED <<cmVars, extVars, now, entries, refreshers, loads, epoch>>

\* The task running get_or_load is cancelled while suspended, either in
\* lock.acquire() (line 75) or in "await loader()" (line 82).  The loader is
\* awaited inside the caller's own coroutine, so CancelledError is delivered
\* into it: the load is torn down, nothing is stored and the lock is released.
Cancel(c) ==
    /\ callers[c].pc \in {"waiting", "loading"}
    /\ LET k == callers[c].key
       IN locks' = [locks EXCEPT ![k] =
              IF callers[c].pc = "loading"
              THEN Released(@)
              ELSE [@ EXCEPT !.waiters = SelectSeq(@, LAMBDA t : t # CTask(c))]]
    /\ callers' = [callers EXCEPT ![c] =
           [@ EXCEPT !.pc = "cancelled", !.t0 = 0, !.ld = 0, !.args = NoArgs]]
    /\ UNCHANGED <<cmVars, extVars, now, entries, refreshers, loads, epoch>>

\* _refresh, lines 106-109, from the start of the task to its first suspension.
RefreshRun(r) ==
    /\ refreshers[r].pc = "scheduled"
    /\ LET k == refreshers[r].key
       IN IF CanAcquire(locks[k])
          THEN /\ loads[k] < MaxLoads
               /\ loads' = [loads EXCEPT ![k] = @ + 1]
               /\ locks' = [locks EXCEPT ![k] = Acquired(@)]
               /\ refreshers' = [refreshers EXCEPT ![r] =
                      [@ EXCEPT !.pc = "loading", !.ld = loads[k] + 1]]
          ELSE /\ locks' = [locks EXCEPT ![k] = Enqueued(@, RTask(r))]
               /\ refreshers' = [refreshers EXCEPT ![r].pc = "waiting"]
               /\ UNCHANGED loads
    /\ UNCHANGED <<cmVars, extVars, now, entries, callers, epoch>>

\* A refresh task queued on the lock is woken and invokes the loader
\* (_refresh makes no re-check of the entry).
RefreshWake(r) ==
    /\ refreshers[r].pc = "waiting"
    /\ LET k == refreshers[r].key
           l == locks[k]
       IN /\ ~l.locked
          /\ l.waiters # <<>>
          /\ Head(l.waiters) = RTask(r)
          /\ loads[k] < MaxLoads
          /\ loads' = [loads EXCEPT ![k] = @ + 1]
          /\ locks' = [locks EXCEPT ![k] = Acquired([l EXCEPT !.waiters = Tail(@)])]
          /\ refreshers' = [refreshers EXCEPT ![r] =
                 [@ EXCEPT !.pc = "loading", !.ld = loads[k] + 1]]
    /\ UNCHANGED <<cmVars, extVars, now, entries, callers, epoch>>

\* _refresh, lines 113-118: the loader returned; the entry is replaced with a
\* timestamp taken after the load.
RefreshReturn(r) ==
    /\ refreshers[r].pc = "loading"
    /\ LET k == refreshers[r].key
       IN /\ entries' = [entries EXCEPT ![k] =
                 NewEntry(refreshers[r].ld, now, refreshers[r].args)]
          /\ locks' = [locks EXCEPT ![k] = Released(@)]
          /\ epoch' = [epoch EXCEPT ![k] = @ + 1]
          /\ refreshers' = [refreshers EXCEPT ![r] =
                 [FreeRefresher EXCEPT !.pc = "done", !.key = k, !.epoch = refreshers[r].epoch]]
    /\ UNCHANGED <<cmVars, extVars, now, callers, loads>>

EntriesAfterRefreshErrorDropped(k) == [entries EXCEPT ![k] = NoEntry]

\* _refresh, lines 110-112: the stored entries after the loader raised.
EntriesAfterRefreshError(k) == entries

\* _refresh, lines 108-112: the loader raised; logged, the task returns.
RefreshRaise(r) ==
    /\ refreshers[r].pc = "loading"
    /\ LET k == refreshers[r].key
       IN /\ entries' = EntriesAfterRefreshError(k)
          /\ locks' = [locks EXCEPT ![k] = Released(@)]
          /\ epoch' = [epoch EXCEPT ![k] = @ + 1]
          /\ refreshers' = [refreshers EXCEPT ![r] =
                 [FreeRefresher EXCEPT !.pc = "failed", !.key = k, !.epoch = refreshers[r].epoch]]
    /\ UNCHANGED <<cmVars, extVars, now, callers, loads>>

\* the _TTLCache object of a namespace after CacheStore.clear() dropped it:
\* its entries and locks, under the names the tasks still running on it use
Orphan == [k \in Keys |-> IF k = FirstKey THEN "dropped/k1" ELSE "dropped/k2"]

\* CacheStore.clear(None), line 158: self._caches.clear() drops every
\* _TTLCache; the tasks suspended in get_or_load or _refresh keep the dropped
\* object, its entries and its locks, and the next call of a namespace makes
\* an empty _TTLCache.  At most one dropped object is in use at a time.
Clear ==
    /\ \A c \in Callers :
          callers[c].pc \in {"waiting", "loading"} => callers[c].key \in Keys
    /\ \A r \in Refreshers :
          refreshers[r].pc \in {"scheduled", "waiting", "loading"} => refreshers[r].key \in Keys
    /\ LET Dropped(f, fresh) ==
               [k \in Keys \cup { Orphan[q] : q \in Keys } |->
                   IF k \in Keys THEN fresh
                   ELSE f[CHOOSE q \in Keys : Orphan[q] = k]]
       IN /\ entries' = Dropped(entries, NoEntry)
          /\ locks' = Dropped(locks, NewLock)
          /\ loads' = [k \in Keys \cup { Orphan[q] : q \in Keys } |->
                          loads[IF k \in Keys THEN k ELSE CHOOSE q \in Keys : Orphan[q] = k]]
          /\ epoch' = [k \in Keys \cup { Orphan[q] : q \in Keys } |->
                          epoch[IF k \in Keys THEN k ELSE CHOOSE q \in Keys : Orphan[q] = k]]
    /\ callers' = [c \in Callers |->
           IF callers[c].pc \in {"waiting", "loading"}
           THEN [callers[c] EXCEPT !.key = Orphan[@]] ELSE callers[c]]
    /\ refreshers' = [r \in Refreshers |->
           IF refreshers[r].pc \in {"scheduled", "waiting", "loading"}
           THEN [refreshers[r] EXCEPT !.key = Orphan[@]] ELSE refreshers[r]]
    /\ UNCHANGED <<cmVars, extVars, now>>

(***************************************************************************)
(* Part II.  MemoryCache, FilesCache, SqliteCache and CacheManager         *)
(***************************************************************************)

\* Model scale: capacity of the memory tier and the tiers' default TTLs
\* (memory < files < sqlite, as in the default configuration).
MaxItems == 2
MaxClock == 1
MemDefaultTtl == 1
FilesDefaultTtl == 2
SqliteDefaultTtl == 3

\* Optional[int] / Optional[float]
NoneOpt == [some |-> FALSE, v |-> 0]
Some(n) == [some |-> TRUE, v |-> n]

\* Strings are sequences of characters.  The (namespace, key) pairs used:
\* two keys of one namespace, and a second namespace with the same slug.
Namespaces == { <<"a">>, <<"A">> }
KeyNames == { <<"k">>, <<"K">> }
NoName == <<>>
KeyNone == [some |-> FALSE, v |-> NoName]
KeyOf(key) == [some |-> TRUE, v |-> key]
Payloads == {"p1", "p2"}
NoBytes == "<none>"
Metas == {"m1"}
NoMeta == "{}"
TtlInputs == { NoneOpt, Some(1) }

\* the key argument of invalidate: a key, or None for the whole namespace
KeyOpts == { KeyOf(k) : k \in KeyNames } \cup { KeyNone }

\* str.lower on the model's alphabet
Lower(ch) == CASE ch = "A" -> "a" [] ch = "K" -> "k" [] ch = "T" -> "t" [] OTHER -> ch

\* the characters of the alphabet matched by [a-z0-9._-]
SlugChars == {"a", "b", "k", ".", "_", "-"}

RECURSIVE LStrip(_)
LStrip(s) == IF s # <<>> /\ Head(s) = " " THEN LStrip(Tail(s)) ELSE s

RECURSIVE RStrip(_)
RStrip(s) ==
    IF s # <<>> /\ s[Len(s)] = " " THEN RStrip(SubSeq(s, 1, Len(s) - 1)) ELSE s

\* re.sub(r"\s+", "-", ...)
RECURSIVE CollapseSpaces(_)
CollapseSpaces(s) ==
    IF s = <<>> THEN <<>>
    ELSE IF Head(s) = " " THEN <<"-">> \o CollapseSpaces(LStrip(s))
    ELSE <<Head(s)>> \o CollapseSpaces(Tail(s))

DefaultSlug == <<"d", "e", "f", "a", "u", "l", "t">>

\* FilesCache._slugify
Slugify(name) ==
    LET stripped == RStrip(LStrip(name))
        lowered == [i \in 1..Len(stripped) |-> Lower(stripped[i])]
        dashed == CollapseSpaces(lowered)
        slug == [i \in 1..Len(dashed) |->
                    IF dashed[i] \in SlugChars THEN dashed[i] ELSE "-"]
    IN IF slug = <<>> THEN DefaultSlug ELSE slug

SlugLimit == 40

\* hashlib.sha1(key.encode("utf-8")).hexdigest()[:12] of the model's keys
Digest(key) ==
    CASE key = <<"k">> -> "13fbd79c3d39"
      [] key = <<"K">> -> "a7ee38bb7be4"

\* FilesCache._filename: "<slug[:40]>-<digest>.png"
Filename(key) ==
    LET slug == Slugify(key)
    IN <<SubSeq(slug, 1, IF Len(slug) < SlugLimit THEN Len(slug) ELSE SlugLimit),
         Digest(key)>>

\* the slugs and file names of the model's names, computed once
SlugOf == [n \in Namespaces |-> Slugify(n)]
FilenameOf == [k \in KeyNames |-> Filename(k)]

\* FilesCache._path_for
PathFor(ns, key) == [dir |-> SlugOf[ns], file |-> FilenameOf[key]]

Pairs == { <<<<"a">>, <<"k">>>>, <<<<"a">>, <<"K">>>>, <<<<"A">>, <<"k">>>> }
Paths == { PathFor(q[1], q[2]) : q \in Pairs }
NoPath == [dir |-> <<>>, file |-> <<>>]

BytesPayload(b) == [bytes |-> b, path |-> NoPath]
PathPayload(p) == [bytes |-> NoBytes, path |-> p]

\* models.CacheEntry
CacheEntry(ns, key, payload, metadata, created_at, expires_at) ==
    [hit |-> TRUE, namespace |-> ns, key |-> key, payload |-> payload,
     metadata |-> metadata, created_at |-> created_at, expires_at |-> expires_at]

\* a lookup returning None
Miss ==
    [hit |-> FALSE, namespace |-> NoName, key |-> NoName,
     payload |-> BytesPayload(NoBytes), metadata |-> NoMeta,
     created_at |-> 0, expires_at |-> NoneOpt]

is_expiredStrict(e, t) == e.expires_at.some /\ t > e.expires_at.v

\* models.CacheEntry.is_expired
is_expired(e, t) == e.expires_at.some /\ t >= e.expires_at.v

ExpiryZeroKept(default_ttl, ttl, t) ==
    LET eff == IF ttl.some THEN ttl ELSE default_ttl
    IN IF ~eff.some \/ eff.v < 0 THEN NoneOpt ELSE Some(t + eff.v)

\* _expiry of the three tiers (the same code, each with its own default_ttl)
Expiry(default_ttl, ttl, t) ==
    LET eff == IF ttl.some THEN ttl ELSE default_ttl
    IN IF ~eff.some \/ eff.v <= 0 THEN NoneOpt ELSE Some(t + eff.v)

MemExpiry(ttl, t) == Expiry(Some(MemDefaultTtl), ttl, t)
FilesExpiry(ttl, t) == Expiry(Some(FilesDefaultTtl), ttl, t)
SqliteExpiry(ttl, t) == Expiry(Some(SqliteDefaultTtl), ttl, t)

(* ------------------------------ MemoryCache ----------------------------- *)

\* MemoryCache.enabled
MemEnabled == cfg.mem_enabled /\ cfg.max_items > 0

Without(m, ns, key) ==
    SelectSeq(m, LAMBDA e : ~(e.namespace = ns /\ e.key = key))

RECURSIVE MemEvictNewest(_)
MemEvictNewest(m) ==
    IF cfg.max_items <= 0 THEN <<>>
    ELSE IF Len(m) > cfg.max_items THEN MemEvictNewest(SubSeq(m, 1, Len(m) - 1))
    ELSE m

MemEvictNever(m) == m

\* MemoryCache._evict_unlocked: popitem(last=False) while over max_items
RECURSIVE MemEvict(_)
MemEvict(m) ==
    IF cfg.max_items <= 0 THEN <<>>
    ELSE IF Len(m) > cfg.max_items THEN MemEvict(Tail(m))
    ELSE m

MemStoreEntryAppended(m, entry) ==
    IF ~MemEnabled THEN m ELSE MemEvict(Append(m, entry))

\* MemoryCache.store_entry
MemStoreEntry(m, entry) ==
    IF ~MemEnabled THEN m
    ELSE MemEvict(Append(Without(m, entry.namespace, entry.key), entry))

\* MemoryCache.store
MemStore(m, ns, key, payload, ttl, metadata, t) ==
    MemStoreEntry(m, CacheEntry(ns, key, BytesPayload(payload), metadata, t, MemExpiry(ttl, t)))

MemFind(m, ns, key) ==
    LET found == SelectSeq(m, LAMBDA e : e.namespace = ns /\ e.key = key)
    IN IF found = <<>> THEN Miss ELSE found[1]

\* MemoryCache.get: the value returned
MemGetResult(m, ns, key, t) ==
    IF ~MemEnabled THEN Miss
    ELSE LET e == MemFind(m, ns, key)
         IN IF ~e.hit THEN Miss
            ELSE IF is_expired(e, t) THEN Miss
            ELSE e

MemAfterGetNoPromote(m, ns, key, t) ==
    IF ~MemEnabled THEN m
    ELSE LET e == MemFind(m, ns, key)
         IN IF e.hit /\ is_expired(e, t) THEN Without(m, ns, key) ELSE m

\* MemoryCache.get: its effect (expired entry popped, hit moved to the end)
MemAfterGet(m, ns, key, t) ==
    IF ~MemEnabled THEN m
    ELSE LET e == MemFind(m, ns, key)
         IN IF ~e.hit THEN m
            ELSE IF is_expired(e, t) THEN Without(m, ns, key)
            ELSE Append(Without(m, ns, key), e)

MemInvalidateFirstOnly(m, ns, key) ==
    IF ~MemEnabled THEN m
    ELSE IF key.some THEN Without(m, ns, key.v)
    ELSE LET e == SelectSeq(m, LAMBDA x : x.namespace = ns)
         IN IF e = <<>> THEN m ELSE Without(m, ns, e[1].key)

\* MemoryCache.invalidate
MemInvalidate(m, ns, key) ==
    IF ~MemEnabled THEN m
    ELSE IF key.some THEN Without(m, ns, key.v)
    ELSE SelectSeq(m, LAMBDA e : e.namespace # ns)

\* MemoryCache.cleanup
MemCleanup(m, t) ==
    IF ~MemEnabled THEN m
    ELSE SelectSeq(m, LAMBDA e : ~is_expired(e, t))

(* ------------------------------- FilesCache ----------------------------- *)

\* FilesCache.enabled (CacheSettings always configures a directory)
FilesEnabled == cfg.files_enabled

NoFile == "<missing>"
NoSidecar ==
    [exists |-> FALSE, namespace |-> NoName, key |-> NoName,
     created_at |-> 0, expires_at |-> NoneOpt, metadata |-> NoMeta]
NoFiles == [png |-> NoFile, meta |-> NoSidecar]

\* FilesCache.store: the payload file and its JSON sidecar are written
FilesStore(f, ns, key, payload, ttl, metadata, t) ==
    [f EXCEPT ![PathFor(ns, key)] =
        [png |-> payload,
         meta |-> [exists |-> TRUE, namespace |-> ns, key |-> key, created_at |-> t,
                   expires_at |-> FilesExpiry(ttl, t), metadata |-> metadata]]]

\* FilesCache.invalidate
FilesInvalidate(f, ns, key) ==
    IF ~FilesEnabled THEN f
    ELSE IF key.some THEN [f EXCEPT ![PathFor(ns, key.v)] = NoFiles]
    ELSE [p \in Paths |-> IF p.dir = SlugOf[ns] THEN NoFiles ELSE f[p]]

\* FilesCache.get: the value returned
FilesGetResult(f, ns, key, t) ==
    IF ~FilesEnabled THEN Miss
    ELSE LET p == PathFor(ns, key)
             r == f[p]
         IN IF r.png = NoFile \/ ~r.meta.exists THEN Miss
            ELSE IF r.meta.expires_at.some /\ t >= r.meta.expires_at.v THEN Miss
            ELSE CacheEntry(ns, key, PathPayload(p), r.meta.metadata,
                            r.meta.created_at, r.meta.expires_at)

\* FilesCache.get: its effect (an expired entry is invalidated)
FilesAfterGet(f, ns, key, t) ==
    IF ~FilesEnabled THEN f
    ELSE LET r == f[PathFor(ns, key)]
         IN IF r.png = NoFile \/ ~r.meta.exists THEN f
            ELSE IF r.meta.expires_at.some /\ t >= r.meta.expires_at.v
                 THEN FilesInvalidate(f, ns, KeyOf(key))
            ELSE f

\* FilesCache.get when the sidecar written by store has been damaged: the
\* text is no JSON (cut short or empty), the bytes are no UTF-8, the file
\* cannot be opened, or the JSON is no object.  Only json.JSONDecodeError is
\* caught (lines 94-101); read_text and meta.get raise otherwise.
FilesGetDamaged(f, ns, key, t, damage) ==
    LET p == PathFor(ns, key)
        r == f[p]
    IN IF ~FilesEnabled \/ r.png = NoFile \/ ~r.meta.exists
       THEN [outcome |-> "returns", entry |-> Miss]
       ELSE IF damage = "no JSON"
       THEN [outcome |-> "returns",
             entry |-> CacheEntry(ns, key, PathPayload(p), NoMeta, r.meta.created_at, NoneOpt)]
       ELSE [outcome |-> "raises", entry |-> Miss]

\* FilesCache.read
FilesRead(f, ns, key, t) ==
    LET e == FilesGetResult(f, ns, key, t)
    IN IF ~e.hit THEN NoBytes ELSE f[e.payload.path].png

\* FilesCache.cleanup
FilesCleanup(f, t) ==
    IF ~FilesEnabled THEN f
    ELSE [p \in Paths |->
            IF f[p].meta.exists /\ f[p].meta.expires_at.some /\ t >= f[p].meta.expires_at.v
            THEN NoFiles ELSE f[p]]

(* ------------------------------- SqliteCache ---------------------------- *)

\* SqliteCache.enabled (CacheSettings always configures a path)
SqliteEnabled == cfg.sqlite_enabled

NoRow ==
    [exists |-> FALSE, payload |-> NoBytes, metadata |-> NoMeta,
     created_at |-> 0, expires_at |-> NoneOpt]

\* SqliteCache.store: INSERT OR REPLACE
SqliteStore(d, ns, key, payload, ttl, metadata, t) ==
    [d EXCEPT ![<<ns, key>>] =
        [exists |-> TRUE, payload |-> payload, metadata |-> metadata,
         created_at |-> t, expires_at |-> SqliteExpiry(ttl, t)]]

\* SqliteCache.invalidate
SqliteInvalidate(d, ns, key) ==
    IF ~SqliteEnabled THEN d
    ELSE [q \in Pairs |->
            IF q[1] = ns /\ (key.some => q[2] = key.v) THEN NoRow ELSE d[q]]

\* SqliteCache.get: the value returned
SqliteGetResult(d, ns, key, t) ==
    IF ~SqliteEnabled THEN Miss
    ELSE LET row == d[<<ns, key>>]
         IN IF ~row.exists THEN Miss
            ELSE IF row.expires_at.some /\ t >= row.expires_at.v THEN Miss
            ELSE CacheEntry(ns, key, BytesPayload(row.payload), row.metadata,
                            row.created_at, row.expires_at)

\* SqliteCache.get: its effect (an expired row is deleted)
SqliteAfterGet(d, ns, key, t) ==
    IF ~SqliteEnabled THEN d
    ELSE LET row == d[<<ns, key>>]
         IN IF row.exists /\ row.expires_at.some /\ t >= row.expires_at.v
            THEN SqliteInvalidate(d, ns, KeyOf(key))
            ELSE d

\* SqliteCache.read
SqliteRead(d, ns, key, t) ==
    LET e == SqliteGetResult(d, ns, key, t)
    IN IF ~e.hit THEN NoBytes ELSE e.payload.bytes

SqliteCleanupStrict(d, t) ==
    IF ~SqliteEnabled THEN d
    ELSE [q \in Pairs |->
            IF d[q].exists /\ d[q].expires_at.some /\ d[q].expires_at.v < t
            THEN NoRow ELSE d[q]]

\* SqliteCache.cleanup: DELETE ... WHERE expires_at IS NOT NULL AND expires_at <= now
SqliteCleanup(d, t) ==
    IF ~SqliteEnabled THEN d
    ELSE [q \in Pairs |->
            IF d[q].exists /\ d[q].expires_at.some /\ d[q].expires_at.v <= t
            THEN NoRow ELSE d[q]]

(* ------------------- the disk tiers under overlapping calls -------------- *)
\* The threads that call into one FilesCache and one SqliteCache at the same
\* time.  Each makes one call; pc is the line it has reached, args what it
\* was called with, local what it has read so far, out what it returned.
Threads == 1..NumThreads
IdleThread == [pc |-> "idle", op |-> "none", args |-> <<>>, local |-> <<>>, out |-> <<>>]

\* FilesCache._lock is held (store is between write_bytes and write_text)
FilesLocked == \E t \in Threads : threads[t].pc = "sidecar"

\* FilesCache.store from its first line to target.write_bytes (lines 62-66,
\* the lock taken and kept); SqliteCache.store whole (one INSERT OR REPLACE
\* committed under the lock)
StoreBegin(t, tier, ns, key, payload, ttl, metadata) ==
    /\ threads[t].pc = "idle"
    /\ tier = "files" => ~FilesLocked
    /\ threads' = [threads EXCEPT ![t] =
            [pc |-> IF tier = "files" THEN "sidecar" ELSE "done", op |-> "store",
             args |-> [tier |-> tier, ns |-> ns, key |-> key, payload |-> payload,
                       ttl |-> ttl, metadata |-> metadata, now |-> now],
             local |-> <<>>, out |-> <<>>]]
    /\ IF tier = "files"
       THEN /\ files' = [files EXCEPT ![PathFor(ns, key)].png = payload]
            /\ UNCHANGED db
       ELSE /\ db' = SqliteStore(db, ns, key, payload, ttl, metadata, now)
            /\ UNCHANGED files
    /\ UNCHANGED <<now, cfg, mem, recent, ttlVars, stat, cache_dir, image_dir, result,
                   raised, quantized>>

\* FilesCache.store: meta_path.write_text, the lock released (lines 67-75)
StoreSidecar(t) ==
    /\ threads[t].pc = "sidecar"
    /\ LET a == threads[t].args
       IN files' = FilesStore(files, a.ns, a.key, a.payload, a.ttl, a.metadata, a.now)
    /\ threads' = [threads EXCEPT ![t].pc = "done"]
    /\ UNCHANGED <<now, cfg, mem, db, recent, ttlVars, stat, cache_dir, image_dir, result,
                   raised, quantized>>

\* FilesCache.get up to the expiry test (lines 90-103, no lock taken): the
\* two exists() calls, the sidecar read and the comparison with time.time().
\* SqliteCache.get up to the expiry test (lines 97-106): the SELECT under
\* the lock, the lock released, the comparison.
GetBegin(t, tier, ns, key) ==
    /\ threads[t].pc = "idle"
    /\ LET r == files[PathFor(ns, key)]
           row == db[<<ns, key>>]
           seen == IF tier = "files"
                   THEN [exists |-> r.png # NoFile /\ r.meta.exists, payload |-> NoBytes,
                         metadata |-> r.meta.metadata, created_at |-> r.meta.created_at,
                         expires_at |-> r.meta.expires_at]
                   ELSE row
           expired == seen.expires_at.some /\ now >= seen.expires_at.v
       IN threads' = [threads EXCEPT ![t] =
            [pc |-> IF ~seen.exists THEN "done"
                    ELSE IF expired THEN "expired"
                    ELSE IF tier = "files" THEN "found" ELSE "done",
             op |-> "read",
             args |-> [tier |-> tier, ns |-> ns, key |-> key],
             local |-> seen,
             out |-> IF seen.exists /\ ~expired /\ tier = "sqlite" THEN seen ELSE NoRow]]
    /\ UNCHANGED <<now, cmVars, recent, ttlVars, stat, cache_dir, image_dir, result,
                   raised, quantized>>

\* get on an expired entry: self.invalidate(namespace, key), which takes the
\* lock and removes whatever the tier holds under the key by now
GetInvalidate(t) ==
    /\ threads[t].pc = "expired"
    /\ LET a == threads[t].args
       IN IF a.tier = "files"
          THEN /\ ~FilesLocked
               /\ files' = FilesInvalidate(files, a.ns, KeyOf(a.key))
               /\ UNCHANGED db
          ELSE /\ db' = SqliteInvalidate(db, a.ns, KeyOf(a.key))
               /\ UNCHANGED files
    /\ threads' = [threads EXCEPT ![t].pc = "done"]
    /\ UNCHANGED <<now, cfg, mem, recent, ttlVars, stat, cache_dir, image_dir, result,
                   raised, quantized>>

\* FilesCache.read after get returned an entry: path.read_bytes() (lines
\* 121-125), None when the file is gone
ReadBytes(t) ==
    /\ threads[t].pc = "found"
    /\ LET a == threads[t].args
           png == files[PathFor(a.ns, a.key)].png
       IN threads' = [threads EXCEPT ![t].pc = "done",
                                     ![t].out = IF png = NoFile THEN NoRow
                                                ELSE [threads[t].local EXCEPT !.payload = png]]
    /\ UNCHANGED <<now, cmVars, recent, ttlVars, stat, cache_dir, image_dir, result,
                   raised, quantized>>

(* ------------------------------ CacheManager ---------------------------- *)

\* The three tiers as one value: what an operation of CacheManager reads and
\* what it leaves behind.
Tiers(m, f, d) == [mem |-> m, files |-> f, db |-> d]

Current == Tiers(mem, files, db)

TierOrderSqliteFirst == <<"memory", "sqlite", "files">>

\* CacheManager.get / read: the order in which the tiers are consulted
TierOrder == <<"memory", "files", "sqlite">>

\* the "if self.<tier>.enabled" tests of CacheManager
TierEnabled(tier) ==
    CASE tier = "memory" -> MemEnabled
      [] tier = "files" -> FilesEnabled
      [] tier = "sqlite" -> SqliteEnabled

\* self.<tier>.get(namespace, key)
TierGet(tier, s, t, ns, key) ==
    CASE tier = "memory" -> MemGetResult(s.mem, ns, key, t)
      [] tier = "files" -> FilesGetResult(s.files, ns, key, t)
      [] tier = "sqlite" -> SqliteGetResult(s.db, ns, key, t)

\* CacheManager.read: the bytes a tier yields (memory: entry.payload when it
\* is bytes; files and sqlite: their read())
TierRead(tier, s, t, ns, key) ==
    CASE tier = "memory" -> MemGetResult(s.mem, ns, key, t).payload.bytes
      [] tier = "files" -> FilesRead(s.files, ns, key, t)
      [] tier = "sqlite" -> SqliteRead(s.db, ns, key, t)

\* the first enabled tier, in the given order, whose lookup hits
RECURSIVE FirstHit(_, _, _, _, _)
FirstHit(order, s, t, ns, key) ==
    IF order = <<>> THEN "none"
    ELSE IF TierEnabled(Head(order)) /\ TierGet(Head(order), s, t, ns, key).hit
         THEN Head(order)
    ELSE FirstHit(Tail(order), s, t, ns, key)

\* the tiers whose get() a lookup calls: the enabled ones up to the first hit
RECURSIVE Consulted(_, _, _, _, _)
Consulted(order, s, t, ns, key) ==
    IF order = <<>> THEN {}
    ELSE IF ~TierEnabled(Head(order)) THEN Consulted(Tail(order), s, t, ns, key)
    ELSE IF TierGet(Head(order), s, t, ns, key).hit THEN {Head(order)}
    ELSE {Head(order)} \cup Consulted(Tail(order), s, t, ns, key)

\* CacheManager.get: the value returned
CMGetValue(s, t, ns, key) ==
    LET tier == FirstHit(TierOrder, s, t, ns, key)
    IN IF tier = "none" THEN Miss ELSE TierGet(tier, s, t, ns, key)

\* CacheManager.read: the value returned
CMReadValue(s, t, ns, key) ==
    LET tier == FirstHit(TierOrder, s, t, ns, key)
    IN IF tier = "none" THEN NoBytes ELSE TierRead(tier, s, t, ns, key)

\* CacheManager.get / read: the tiers after the lookups they make
AfterLookup(s, t, ns, key) ==
    LET cs == Consulted(TierOrder, s, t, ns, key)
    IN Tiers(IF "memory" \in cs THEN MemAfterGet(s.mem, ns, key, t) ELSE s.mem,
             IF "files" \in cs THEN FilesAfterGet(s.files, ns, key, t) ELSE s.files,
             IF "sqlite" \in cs THEN SqliteAfterGet(s.db, ns, key, t) ELSE s.db)

AfterStoreUnguarded(s, t, ns, key, payload, ttl, metadata) ==
    Tiers(MemStore(s.mem, ns, key, payload, ttl, metadata, t),
          FilesStore(s.files, ns, key, payload, ttl, metadata, t),
          SqliteStore(s.db, ns, key, payload, ttl, metadata, t))

\* CacheManager.store: the tiers after the store
AfterStore(s, t, ns, key, payload, ttl, metadata) ==
    Tiers(IF MemEnabled
          THEN MemStore(s.mem, ns, key, payload, ttl, metadata, t) ELSE s.mem,
          IF FilesEnabled
          THEN FilesStore(s.files, ns, key, payload, ttl, metadata, t) ELSE s.files,
          IF SqliteEnabled
          THEN SqliteStore(s.db, ns, key, payload, ttl, metadata, t) ELSE s.db)

\* CacheManager.invalidate: the tiers after it (key = KeyNone: whole namespace)
AfterInvalidate(s, ns, key) ==
    Tiers(MemInvalidate(s.mem, ns, key),
          FilesInvalidate(s.files, ns, key),
          SqliteInvalidate(s.db, ns, key))

\* CacheManager.invalidate when the invalidate of one tier raises (lines
\* 279-282 have no try/except; FilesCache._unlink passes on every OSError but
\* FileNotFoundError, SqliteCache.invalidate every sqlite3.Error): the tiers
\* called before the failing one are invalidated, the tiers after it are not
\* called.  The files tier fails at the payload file, or (partial, for one
\* key) at the sidecar after the payload file was removed; a failed DELETE
\* changes nothing.
AfterInvalidateRaising(s, ns, key, failing, partial) ==
    Tiers(MemInvalidate(s.mem, ns, key),
          IF failing = "sqlite" THEN FilesInvalidate(s.files, ns, key)
          ELSE IF partial /\ key.some
               THEN [s.files EXCEPT ![PathFor(ns, key.v)].png = NoFile]
          ELSE s.files,
          s.db)

\* CacheManager.cleanup: the tiers after it
AfterCleanup(s, t) ==
    Tiers(MemCleanup(s.mem, t), FilesCleanup(s.files, t), SqliteCleanup(s.db, t))

\* History of the memory tier: the keys it holds, the least recently
\* accessed first.  A key that is stored, or returned by MemoryCache.get,
\* becomes the most recent one; a key no longer held is dropped.
Recency(order, m, touched) ==
    LET moved == IF touched = <<>> THEN order
                 ELSE Append(SelectSeq(order, LAMBDA q : q # touched[1]), touched[1])
    IN SelectSeq(moved, LAMBDA q : MemFind(m, q[1], q[2]).hit)

\* the key a lookup touches: the one MemoryCache.get returns an entry for
Touched(ns, key) ==
    IF MemEnabled /\ MemGetResult(mem, ns, key, now).hit THEN << <<ns, key>> >> ELSE <<>>

Becomes(s, touched) ==
    /\ mem' = s.mem
    /\ files' = s.files
    /\ db' = s.db
    /\ recent' = Recency(recent, s.mem, touched)

\* CacheManager.store
CMStore(ns, key, payload, ttl, metadata) ==
    /\ Becomes(AfterStore(Current, now, ns, key, payload, ttl, metadata), << <<ns, key>> >>)
    /\ UNCHANGED <<now, cfg, ttlVars, rpVars>>

\* CacheManager.get
CMGet(ns, key) ==
    /\ Becomes(AfterLookup(Current, now, ns, key), Touched(ns, key))
    /\ UNCHANGED <<now, cfg, ttlVars, rpVars>>

\* CacheManager.read
CMRead(ns, key) ==
    /\ Becomes(AfterLookup(Current, now, ns, key), Touched(ns, key))
    /\ UNCHANGED <<now, cfg, ttlVars, rpVars>>

\* CacheManager.invalidate
CMInvalidate(ns, key) ==
    /\ Becomes(AfterInvalidate(Current, ns, key), <<>>)
    /\ UNCHANGED <<now, cfg, ttlVars, rpVars>>

\* CacheManager.invalidate, raising from an enabled tier
CMInvalidateRaises(ns, key, failing, partial) ==
    /\ TierEnabled(failing)
    /\ Becomes(AfterInvalidateRaising(Current, ns, key, failing, partial), <<>>)
    /\ UNCHANGED <<now, cfg, ttlVars, rpVars>>

\* CacheManager.cleanup
CMCleanup ==
    /\ Becomes(AfterCleanup(Current, now), <<>>)
    /\ UNCHANGED <<now, cfg, ttlVars, rpVars>>

\* The process restarts: create_cache_manager builds a new, empty MemoryCache
\* over the same cache directory and database file.
Restart ==
    /\ mem' = <<>>
    /\ recent' = <<>>
    /\ UNCHANGED <<now, cfg, files, db, ttlVars, rpVars>>

\* time.time() advances
ClockTick ==
    /\ now < MaxClock
    /\ now' = now + 1
    /\ UNCHANGED <<ttlVars, cmVars, extVars>>

\* time.monotonic() advances
Tick ==
    /\ now < MaxTime
    /\ now' = now + 1
    /\ UNCHANGED <<ttlVars, cmVars, extVars>>

(***************************************************************************)
(* Part III.  RendererPipeline (server/renderer/pipeline.py)               *)
(*                                                                         *)
(* Strings whose characters matter (palette, dither, identifiers) are      *)
(* sequences of characters; other strings are sequences of one token.      *)
(* hashlib.sha1 is taken to be injective: a digest is represented by the   *)
(* text it was computed from.                                              *)
(***************************************************************************)
MaxRenders == 2
MaxStat == 2

\* decimal digits, as str() and strftime print them
Dec == [n \in 0..9 |-> CASE n = 0 -> "0" [] n = 1 -> "1" [] n = 2 -> "2" [] n = 3 -> "3"
                         [] n = 4 -> "4" [] n = 5 -> "5" [] n = 6 -> "6" [] n = 7 -> "7"
                         [] n = 8 -> "8" [] n = 9 -> "9"]

\* os.stat of the source image, (st_mtime_ns, st_size): the file as first
\* seen, with later modification times, and with another size
Stats ==
    { [mtime |-> m, size |-> 1] : m \in 1..MaxStat } \cup { [mtime |-> 1, size |-> 2] }

\* request.config or {}, for the configs None, {} and {"a": 1}
OrEmpty(config) == IF config = "None" THEN "{}" ELSE config

\* the requests made: the image p under two (palette, dither) pairs whose
\* texts differ only in where the "|" stands, and the widget w under three
\* configs
PipelineRequest(source, identifier, config, palette, dither) ==
    [source |-> source, identifier |-> identifier, config |-> config,
     layout |-> <<"single">>, theme |-> <<"light">>, palette |-> palette,
     dither |-> dither, separators |-> TRUE]

Requests ==
    { PipelineRequest("image", <<"p">>, "{}", <<"3">>, <<"a", "t", "k", "|", "x">>),
      PipelineRequest("image", <<"p">>, "{}", <<"3", "|", "a", "t", "k">>, <<"x">>),
      PipelineRequest("widget", <<"w">>, "None", <<"3">>, <<"x">>),
      PipelineRequest("widget", <<"w">>, "{}", <<"3">>, <<"x">>),
      PipelineRequest("widget", <<"w">>, "{\"a\": 1}", <<"3">>, <<"x">>) }

\* RendererPipeline._hash_config: sha1 of json.dumps(config, sort_keys=True)
\* (the digests are those of "{}" and "{\"a\": 1}")
HashConfig(config) ==
    CASE config = "{}" -> "bf21a9e8fbc5a3846fb05b4fa0859e0917b2202f"
      [] config = "{\"a\": 1}" -> "e4ad4daad53a2eec0313386ada88211e50d693bd"

FetchSourceMtimeOnly(r, st) ==
    IF r.source = "image"
    THEN [base |-> [name |-> r.identifier, config |-> "{}", stat |-> st],
          version |-> <<Dec[st.mtime], ":">>]
    ELSE [base |-> [name |-> r.identifier, config |-> OrEmpty(r.config), stat |-> [mtime |-> 0, size |-> 0]],
          version |-> <<HashConfig(OrEmpty(r.config))>>]

\* RendererPipeline._fetch_source: the base image (the file's pixels, or what
\* the widget draws for the config) and the version token
FetchSource(r, st) ==
    IF r.source = "image"
    THEN [base |-> [name |-> r.identifier, config |-> "{}", stat |-> st],
          version |-> <<Dec[st.mtime], ":", Dec[st.size]>>]
    ELSE [base |-> [name |-> r.identifier, config |-> OrEmpty(r.config), stat |-> [mtime |-> 0, size |-> 0]],
          version |-> <<HashConfig(OrEmpty(r.config))>>]

\* "|".join(fields)
RECURSIVE Join(_)
Join(fields) ==
    IF Len(fields) = 1 THEN fields[1]
    ELSE fields[1] \o <<"|">> \o Join(Tail(fields))

\* RendererPipeline._cache_key: sha1 of the joined fields
CacheKey(r, version) ==
    Join(<<<<r.source>>, r.identifier, version, r.layout, r.theme, r.palette, r.dither,
           <<IF r.separators THEN "1" ELSE "0">>>>)

\* EINK_PALETTES, lines 22-45: the presets, each a tuple of RGB colours
EINK_PALETTES ==
    LET white == <<255, 255, 255>>  black == <<0, 0, 0>>  red == <<255, 0, 0>>
        yellow == <<255, 255, 0>>  blue == <<0, 0, 200>>  orange == <<240, 128, 48>>
    IN (<<"3">> :> <<white, black, red>>)
       @@ (<<"t", "r", "i">> :> <<white, black, red>>)
       @@ (<<"4">> :> <<white, black, red, yellow>>)
       @@ (<<"7">> :> <<white, black, red, yellow, <<0, 128, 0>>, blue, orange>>)
       @@ (<<"8">> :> <<white, black, red, yellow, <<0, 150, 0>>, blue, orange,
                        <<120, 0, 140>>>>)

ResolvePaletteNoDefault(name) ==
    LET lower == [i \in DOMAIN name |-> Lower(name[i])]
    IN IF lower \in DOMAIN EINK_PALETTES THEN EINK_PALETTES[lower] ELSE <<>>

\* _resolve_palette: the lower-cased name, through ALIAS_PALETTES (inky3,
\* inky4, inky7, inky8), selects a preset; any other name selects "7"
ResolvePalette(name) ==
    LET lower == [i \in DOMAIN name |-> Lower(name[i])]
        key == IF Len(lower) = 5 /\ SubSeq(lower, 1, 4) = <<"i", "n", "k", "y">>
                  /\ lower[5] \in {"3", "4", "7", "8"}
               THEN <<lower[5]>> ELSE lower
    IN IF key \in DOMAIN EINK_PALETTES THEN EINK_PALETTES[key]
       ELSE EINK_PALETTES[<<"7">>]

\* apply_palette, lines 277-282: the branch chosen from the lower-cased
\* mode's text
DitherMode(dither) ==
    LET mode == [i \in DOMAIN dither |-> Lower(dither[i])]
    IN IF mode \in {<<"n", "o", "n", "e">>, <<"o", "f", "f">>, <<"f", "a", "l", "s", "e">>}
       THEN "none"
       ELSE IF Len(mode) >= 3 /\ SubSeq(mode, 1, 3) = <<"a", "t", "k">> THEN "atkinson"
       ELSE "floyd-steinberg"

\* FLOYD_STEINBERG and ATKINSON: (dx, dy, ratio) with the ratio in sixteenths
Matrices ==
    [FLOYD_STEINBERG |-> <<<<1, 0, 7>>, <<-1, 1, 3>>, <<0, 1, 5>>, <<1, 1, 1>>>>,
     ATKINSON |-> <<<<1, 0, 2>>, <<2, 0, 2>>, <<-1, 1, 2>>, <<0, 1, 2>>, <<1, 1, 2>>,
                    <<0, 2, 2>>>>]

\* A float channel value v is represented by the integer 16 * v: the values
\* the buffer of _error_diffuse takes on images of two pixels are multiples
\* of 1/16, which floats hold exactly.
NearestColorLast(color, palette) ==
    LET RECURSIVE Scan(_, _, _)
        Scan(i, best, best_dist) ==
            IF i > Len(palette) THEN best
            ELSE LET p == palette[i]
                     dist == (color[1] - 16 * p[1]) * (color[1] - 16 * p[1])
                             + (color[2] - 16 * p[2]) * (color[2] - 16 * p[2])
                             + (color[3] - 16 * p[3]) * (color[3] - 16 * p[3])
                 IN IF best_dist < 0 \/ dist <= best_dist THEN Scan(i + 1, p, dist)
                    ELSE Scan(i + 1, best, best_dist)
        found == Scan(1, <<>>, -1)
    IN IF found = <<>> THEN <<0, 0, 0>> ELSE found

\* _nearest_color: the loop over the palette in order; best_dist -1 stands
\* for float("inf") and best <<>> for None
NearestColor(color, palette) ==
    LET RECURSIVE Scan(_, _, _)
        Scan(i, best, best_dist) ==
            IF i > Len(palette) THEN best
            ELSE LET p == palette[i]
                     dist == (color[1] - 16 * p[1]) * (color[1] - 16 * p[1])
                             + (color[2] - 16 * p[2]) * (color[2] - 16 * p[2])
                             + (color[3] - 16 * p[3]) * (color[3] - 16 * p[3])
                 IN IF best_dist < 0 \/ dist < best_dist THEN Scan(i + 1, p, dist)
                    ELSE Scan(i + 1, best, best_dist)
        found == Scan(1, <<>>, -1)
    IN IF found = <<>> THEN <<0, 0, 0>> ELSE found

\* _map_palette: an image is its size and its pixels in raster order
MapPalette(image, palette) ==
    [image EXCEPT !.px = [k \in DOMAIN image.px |->
        NearestColor([c \in 1..3 |-> 16 * image.px[k][c]], palette)]]

SharesWrapping(width, height, n, matrix) ==
    [k \in 1..(width * height) |->
        LET to == { i \in DOMAIN matrix :
                       /\ n + matrix[i][1] + width * matrix[i][2] = k - 1
                       /\ (n \div width) + matrix[i][2] < height }
        IN IF to = {} THEN 0 ELSE matrix[CHOOSE i \in to : TRUE][3]]

\* _error_diffuse, lines 268-272: the ratio (in sixteenths) of the error of
\* pixel n = y * width + x added to each pixel: that of the matrix entry
\* (dx, dy) for the pixel (x + dx, y + dy) when it lies inside the image
Shares(width, height, n, matrix) ==
    [k \in 1..(width * height) |->
        LET to == { i \in DOMAIN matrix :
                       /\ (n % width) + matrix[i][1] = (k - 1) % width
                       /\ (n \div width) + matrix[i][2] = (k - 1) \div width }
        IN IF to = {} THEN 0 ELSE matrix[CHOOSE i \in to : TRUE][3]]

ErrorDiffuseUnquantized(image, palette, matrix) == image

\* _error_diffuse: the pixels in raster order, each clamped, replaced by its
\* nearest palette colour, its error spread over the in-bounds neighbours
ErrorDiffuse(image, palette, matrix) ==
    LET count == image.width * image.height
        RECURSIVE Step(_, _, _)
        Step(n, buffer, out) ==
            IF n = count THEN out
            ELSE LET old == [c \in 1..3 |->
                                IF buffer[n + 1][c] > 16 * 255 THEN 16 * 255
                                ELSE IF buffer[n + 1][c] < 0 THEN 0 ELSE buffer[n + 1][c]]
                     new_color == NearestColor(old, palette)
                     error == [c \in 1..3 |-> old[c] - 16 * new_color[c]]
                     ratio == Shares(image.width, image.height, n, matrix)
                     spread == [k \in 1..count |-> [c \in 1..3 |->
                                   buffer[k][c] + (error[c] * ratio[k]) \div 16]]
                 IN Step(n + 1, spread, Append(out, new_color))
    IN [image EXCEPT !.px =
           Step(0, [k \in DOMAIN image.px |-> [c \in 1..3 |-> 16 * image.px[k][c]]], <<>>)]

ApplyPaletteKeepingMode(image, palette_name, dither) ==
    LET palette == ResolvePalette(palette_name)
        mode == DitherMode(IF quantized.out.px # <<>> THEN quantized.dither ELSE dither)
    IN IF mode = "none" THEN MapPalette(image, palette)
       ELSE IF mode = "atkinson" THEN ErrorDiffuse(image, palette, Matrices.ATKINSON)
       ELSE ErrorDiffuse(image, palette, Matrices.FLOYD_STEINBERG)

\* apply_palette(image, palette_name, dither)
ApplyPalette(image, palette_name, dither) ==
    LET palette == ResolvePalette(palette_name)
        mode == DitherMode(dither)
    IN IF mode = "none" THEN MapPalette(image, palette)
       ELSE IF mode = "atkinson" THEN ErrorDiffuse(image, palette, Matrices.ATKINSON)
       ELSE ErrorDiffuse(image, palette, Matrices.FLOYD_STEINBERG)

\* the bitmap a miss computes: layout_fn(surface, base_image, theme, content,
\* separators) passed through apply_palette(composed, palette, dither)
Compute(r, base) ==
    [base |-> base, layout |-> "single", theme |-> "light", separators |-> r.separators,
     palette |-> ResolvePalette(r.palette), dither |-> DitherMode(r.dither), mode |-> "RGB"]

\* Image.save(path, format="PNG") and Image.open(path).convert("RGB")
PngEncode(image) == [png |-> image]
PngDecodeGrey(file) == [file.png EXCEPT !.mode = "L"]
PngDecode(file) == [file.png EXCEPT !.mode = "RGB"]

\* a directory: the files in it, by name
EmptyDir == [name \in {} |-> PngEncode(0)]
Written(dir, name, file) ==
    [n \in DOMAIN dir \cup {name} |-> IF n = name THEN file ELSE dir[n]]

\* storage.files.safe_slug: os.path.basename, white space becomes "_", the
\* characters outside [A-Za-z0-9._-] are dropped, and "image" stands for an
\* empty result
safe_slug(name) ==
    LET slashes == { i \in DOMAIN name : name[i] = "/" }
        base == SubSeq(name, IF slashes = {} THEN 1
                             ELSE 1 + CHOOSE i \in slashes : \A j \in slashes : j <= i,
                       Len(name))
        spaced == [i \in DOMAIN base |-> IF base[i] = " " THEN "_" ELSE base[i]]
        kept == SelectSeq(spaced, LAMBDA ch : ch \notin {"|", ":"})
    IN IF kept = <<>> THEN <<"image">> ELSE kept

\* f"{timestamp}_{slug}_{request.layout}_{theme.name}"
BaseName(t, r) ==
    <<"19700101-00000", Dec[t], "_">> \o safe_slug(r.identifier) \o <<"_">>
        \o r.layout \o <<"_", "light">>

CandidateNoCheck(dir, base, counter) == base \o <<".png">>

\* _store_output, lines 153-157: the first of base.png, base_1.png, ... that
\* does not exist
RECURSIVE Candidate(_, _, _)
Candidate(dir, base, counter) ==
    LET name == IF counter = 0 THEN base \o <<".png">>
                ELSE base \o <<"_", Dec[counter], ".png">>
    IN IF name \in DOMAIN dir THEN Candidate(dir, base, counter + 1) ELSE name

\* what the pipeline's directories hold
Disk(c, i) == [cache_dir |-> c, image_dir |-> i]

\* RendererPipeline.render: the PipelineResult, the stages that ran and the
\* directories afterwards
Render(d, st, t, r) ==
    LET src == FetchSource(r, st)
        key == CacheKey(r, src.version)
        hit == key \in DOMAIN d.cache_dir
        final == IF hit THEN PngDecode(d.cache_dir[key]) ELSE Compute(r, src.base)
        out == Candidate(d.image_dir, BaseName(t, r), 0)
    IN [request |-> r, from_cache |-> hit, image |-> final,
        output_path |-> out, cache_key |-> key,
        invoked |-> {"resolver"} \cup (IF hit THEN {} ELSE {"compositor", "quantizer"}),
        disk |-> Disk(IF hit THEN d.cache_dir
                      ELSE Written(d.cache_dir, key, PngEncode(final)),
                      Written(d.image_dir, out, PngEncode(final)))]

RenderRaisingAfterOutput(d, st, t, r, failing) ==
    [raised |-> IF r.identifier \notin {<<"p">>, <<"w">>}
                THEN IF r.source = "image" THEN "FileNotFoundError" ELSE "WidgetError"
                ELSE "Exception",
     disk |-> Render(d, st, t, r).disk]

\* RendererPipeline.render when a stage raises: the content directory holds
\* the image p and the registry the widget w, so that _resolve_image (line
\* 193) and WidgetRegistry.get raise for any other identifier; failing is the
\* stage that raises otherwise (the resolver at line 110, the compositor at
\* line 123, the quantizer at line 124), when the call reaches it.  The error
\* propagates: render has no handler.
RenderRaising(d, st, t, r, failing) ==
    LET src == FetchSource(r, st)
        hit == CacheKey(r, src.version) \in DOMAIN d.cache_dir
        error == IF r.identifier \notin {<<"p">>, <<"w">>}
                 THEN IF r.source = "image" THEN "FileNotFoundError" ELSE "WidgetError"
                 ELSE IF failing = "resolver" \/ ~hit THEN "Exception"
                 ELSE "None"
    IN [raised |-> error,
        disk |-> IF error = "None" THEN Render(d, st, t, r).disk ELSE d]

\* POST /render/now: one render call; result logs the PipelineResult of each
\* call and the stages it ran
RenderNow(r) ==
    /\ Len(result) < MaxRenders
    /\ LET res == Render(Disk(cache_dir, image_dir), stat, now, r)
       IN /\ cache_dir' = res.disk.cache_dir
          /\ image_dir' = res.disk.image_dir
          /\ result' = Append(result, [res EXCEPT !.disk = Disk(EmptyDir, EmptyDir)])
          /\ raised' = "None"
    /\ UNCHANGED <<now, stat, quantized, threads, recent, ttlVars, cmVars>>

\* POST /render/now when render raises: raised is the error of the last call
RenderFails(r, failing) ==
    /\ LET res == RenderRaising(Disk(cache_dir, image_dir), stat, now, r, failing)
       IN /\ res.raised # "None"
          /\ cache_dir' = res.disk.cache_dir
          /\ image_dir' = res.disk.image_dir
          /\ raised' = res.raised
    /\ UNCHANGED <<now, stat, result, quantized, threads, recent, ttlVars, cmVars>>

(* ------------------------ render on several threads --------------------- *)
\* Image.save opens cache_path for writing, which creates or truncates the
\* file, and writes the PNG afterwards: between the two the name exists and
\* the file is not whole.  cache_dir holds the bitmap the finished file will
\* have; the file is whole once no thread is writing it.
BeingWritten(key) ==
    \E t \in Threads : threads[t].pc = "write_cache" /\ threads[t].local.key = key

\* render, lines 110-116: the source fetched, the key derived and
\* cache_path.exists() tested; on a miss the image composed and quantized
\* (lines 120-124)
RenderBegin(t, r) ==
    /\ threads[t].pc = "idle"
    /\ LET src == FetchSource(r, stat)
           key == CacheKey(r, src.version)
           hit == key \in DOMAIN cache_dir
       IN threads' = [threads EXCEPT ![t] =
            [pc |-> IF hit THEN "open" ELSE "save_cache", op |-> "render", args |-> r,
             local |-> [key |-> key, from_cache |-> hit, image |-> Compute(r, src.base),
                        candidate |-> <<>>],
             out |-> [raised |-> "None", from_cache |-> hit, output_path |-> <<>>,
                      image |-> Compute(r, src.base)]]]
    /\ UNCHANGED <<now, stat, cache_dir, image_dir, result, raised, quantized, recent,
                   ttlVars, cmVars>>

\* render, lines 117-119: Image.open(cache_path) and convert("RGB").  A file
\* that is not whole cannot be identified or decoded: Image.open raises
\* UnidentifiedImageError on a file without a header, convert raises OSError
\* on a truncated one, and render has no handler.
RenderOpen(t) ==
    /\ threads[t].pc = "open"
    /\ IF BeingWritten(threads[t].local.key)
       THEN \E error \in {"UnidentifiedImageError", "OSError"} :
                threads' = [threads EXCEPT ![t].pc = "done", ![t].out.raised = error]
       ELSE threads' = [threads EXCEPT
                ![t].pc = "store_output",
                ![t].local.image = PngDecode(cache_dir[threads[t].local.key]),
                ![t].out.image = PngDecode(cache_dir[threads[t].local.key])]
    /\ UNCHANGED <<now, stat, cache_dir, image_dir, result, raised, quantized, recent,
                   ttlVars, cmVars>>

\* render, line 125: final_image.save(cache_path) opens the file
CacheCreate(t) ==
    /\ threads[t].pc = "save_cache"
    /\ cache_dir' = Written(cache_dir, threads[t].local.key, PngEncode(threads[t].local.image))
    /\ threads' = [threads EXCEPT ![t].pc = "write_cache"]
    /\ UNCHANGED <<now, stat, image_dir, result, raised, quantized, recent, ttlVars, cmVars>>

\* render, line 125: save has written the PNG and closed the file
CacheWrite(t) ==
    /\ threads[t].pc = "write_cache"
    /\ cache_dir' = Written(cache_dir, threads[t].local.key, PngEncode(threads[t].local.image))
    /\ threads' = [threads EXCEPT ![t].pc = "store_output"]
    /\ UNCHANGED <<now, stat, image_dir, result, raised, quantized, recent, ttlVars, cmVars>>

\* _store_output, lines 150-157: the time stamp taken and the first free
\* name found by candidate.exists()
OutputPick(t) ==
    /\ threads[t].pc = "store_output"
    /\ threads' = [threads EXCEPT
            ![t].pc = "save_output",
            ![t].local.candidate = Candidate(image_dir, BaseName(now, threads[t].args), 0)]
    /\ UNCHANGED <<now, stat, cache_dir, image_dir, result, raised, quantized, recent,
                   ttlVars, cmVars>>

\* _store_output, lines 158-159: image.save(candidate); render returns
OutputSave(t) ==
    /\ threads[t].pc = "save_output"
    /\ image_dir' = Written(image_dir, threads[t].local.candidate,
                            PngEncode(threads[t].local.image))
    /\ threads' = [threads EXCEPT ![t].pc = "done",
                                  ![t].out.output_path = threads[t].local.candidate]
    /\ UNCHANGED <<now, stat, cache_dir, result, raised, quantized, recent, ttlVars, cmVars>>

\* the images quantized: one pixel, two in a row and two in a column, of
\* black, white, grey, yellow and a green
Images ==
    LET colours == {<<0, 0, 0>>, <<255, 255, 255>>, <<128, 128, 128>>, <<255, 255, 0>>,
                    <<100, 200, 30>>}
    IN { [width |-> 1, height |-> 1, px |-> <<a>>] : a \in colours }
       \cup { [width |-> 2, height |-> 1, px |-> <<a, b>>] : a, b \in colours }
       \cup { [width |-> 1, height |-> 2, px |-> <<a, b>>] : a, b \in colours }

\* render, line 124: apply_palette(composed, request.palette, request.dither)
Quantize(palette_name, dither) ==
    /\ quantized' = [quantized EXCEPT !.palette_name = palette_name, !.dither = dither,
                                      !.out = ApplyPalette(quantized.image, palette_name, dither)]
    /\ UNCHANGED <<now, stat, cache_dir, image_dir, result, raised, threads, recent, ttlVars, cmVars>>

\* the source image is rewritten or touched: its mtime or its size changes
Touch(st) ==
    /\ st # stat
    /\ stat' = st
    /\ UNCHANGED <<now, cache_dir, image_dir, result, raised, quantized, threads, recent, ttlVars, cmVars>>

(***************************************************************************)
(* Specifications                                                          *)
(***************************************************************************)

\* (config.enabled, max_items) of the memory tier, enabled of files and sqlite
Config(m, n, f, s) ==
    [mem_enabled |-> m, max_items |-> n, files_enabled |-> f, sqlite_enabled |-> s]

\* the configurations explored: every subset of the tiers enabled, the memory
\* tier with room for all but one of the keys in use and with more room, and
\* disabled by max_items = 0
Configs ==
    { Config(TRUE, MaxItems - 1, TRUE, TRUE), Config(TRUE, MaxItems, FALSE, TRUE),
      Config(TRUE, MaxItems - 1, TRUE, FALSE), Config(TRUE, MaxItems, FALSE, FALSE),
      Config(FALSE, MaxItems, TRUE, TRUE), Config(TRUE, 0, FALSE, TRUE),
      Config(FALSE, MaxItems, TRUE, FALSE), Config(FALSE, MaxItems, FALSE, FALSE) }

DefaultConfig == Config(TRUE, MaxItems, TRUE, TRUE)

EmptyTiers ==
    /\ mem = <<>>
    /\ files = [p \in Paths |-> NoFiles]
    /\ db = [q \in Pairs |-> NoRow]

IdleTTL ==
    /\ entries = [k \in Keys |-> NoEntry]
    /\ locks = [k \in Keys |-> NewLock]
    /\ callers = [c \in Callers |-> IdleCaller]
    /\ refreshers = [r \in Refreshers |-> FreeRefresher]
    /\ loads = [k \in Keys |-> 0]
    /\ epoch = [k \in Keys |-> 0]

\* a pipeline that has rendered nothing, over an empty cache directory
IdlePipeline ==
    /\ stat = [mtime |-> 1, size |-> 1]
    /\ cache_dir = EmptyDir
    /\ image_dir = EmptyDir
    /\ result = <<>>
    /\ raised = "None"
    /\ quantized = [image |-> [width |-> 0, height |-> 0, px |-> <<>>],
                    palette_name |-> <<>>, dither |-> <<>>,
                    out |-> [width |-> 0, height |-> 0, px |-> <<>>]]
    /\ threads = [t \in Threads |-> IdleThread]

InitTTL ==
    /\ now = 0
    /\ IdleTTL
    /\ cfg = DefaultConfig
    /\ EmptyTiers
    /\ recent = <<>>
    /\ IdlePipeline

NextTTL ==
    \/ \E c \in Callers, k \in Keys, a \in ArgChoices : GetOrLoad(c, k, a)
    \/ \E c \in Callers : CallerWake(c)
    \/ \E c \in Callers : LoaderReturn(c)
    \/ \E c \in Callers : LoaderRaise(c)
    \/ \E c \in Callers : Cancel(c)
    \/ \E r \in Refreshers : RefreshRun(r)
    \/ \E r \in Refreshers : RefreshWake(r)
    \/ \E r \in Refreshers : RefreshReturn(r)
    \/ \E r \in Refreshers : RefreshRaise(r)
    \/ Tick

SpecTTL == InitTTL /\ [][NextTTL]_vars

\* _TTLCache behind a CacheStore that is cleared
NextTTLClear ==
    \/ NextTTL
    \/ Clear

SpecTTLClear == InitTTL /\ [][NextTTLClear]_vars

\* _TTLCache on a running event loop whose loaders terminate: a created task
\* is started, the first waiter of a released lock is woken, and an awaited
\* loader returns or raises.
SpecTTLFair ==
    /\ SpecTTL
    /\ WF_vars(\E r \in Refreshers : RefreshRun(r))
    /\ WF_vars(\E r \in Refreshers : RefreshWake(r))
    /\ WF_vars(\E r \in Refreshers : RefreshReturn(r) \/ RefreshRaise(r))
    /\ WF_vars(\E c \in Callers : CallerWake(c))
    /\ WF_vars(\E c \in Callers : LoaderReturn(c) \/ LoaderRaise(c))

InitCM ==
    /\ now = 0
    /\ IdleTTL
    /\ cfg \in Configs
    /\ EmptyTiers
    /\ recent = <<>>
    /\ IdlePipeline

NextCM ==
    \/ \E q \in Pairs, payload \in Payloads, ttl \in TtlInputs, metadata \in Metas :
            CMStore(q[1], q[2], payload, ttl, metadata)
    \/ \E q \in Pairs : CMGet(q[1], q[2])
    \/ \E q \in Pairs : CMRead(q[1], q[2])
    \/ \E ns \in Namespaces, key \in KeyOpts :
            CMInvalidate(ns, key)
    \/ CMCleanup
    \/ Restart
    \/ ClockTick

SpecCM == InitCM /\ [][NextCM]_vars

\* CacheManager in the default configuration (InitTTL sets cfg to
\* DefaultConfig): every tier enabled, the memory tier with room for MaxItems
\* entries
SpecCMDefault == InitTTL /\ [][NextCM]_vars

\* CacheManager on a file system and a database whose removals can fail
NextCMFault ==
    \/ NextCM
    \/ \E ns \in Namespaces, key \in KeyOpts, failing \in {"files", "sqlite"},
          partial \in BOOLEAN :
            CMInvalidateRaises(ns, key, failing, partial)

SpecCMFault == InitCM /\ [][NextCMFault]_vars

\* FilesCache and SqliteCache called from NumThreads threads at once, each
\* storing or reading the key k of namespace a
NextTierRace ==
    \/ \E t \in Threads, tier \in {"files", "sqlite"}, payload \in Payloads,
          ttl \in TtlInputs, metadata \in Metas :
            StoreBegin(t, tier, <<"a">>, <<"k">>, payload, ttl, metadata)
    \/ \E t \in Threads : StoreSidecar(t)
    \/ \E t \in Threads, tier \in {"files", "sqlite"} : GetBegin(t, tier, <<"a">>, <<"k">>)
    \/ \E t \in Threads : GetInvalidate(t)
    \/ \E t \in Threads : ReadBytes(t)
    \/ ClockTick

SpecTierRace == InitTTL /\ [][NextTierRace]_vars

InitRP ==
    /\ now = 0
    /\ IdleTTL
    /\ cfg = DefaultConfig
    /\ EmptyTiers
    /\ recent = <<>>
    /\ IdlePipeline

NextRP ==
    \/ \E r \in Requests : RenderNow(r)
    \/ \E st \in Stats : Touch(st)
    \/ ClockTick

SpecRP == InitRP /\ [][NextRP]_vars

\* render calls that return and render calls that raise: a missing image q,
\* an unregistered widget v, and a stage that raises; the source image stays
\* as it is
NextRPFail ==
    \/ \E r \in Requests : RenderNow(r)
    \/ ClockTick
    \/ \E r \in Requests \cup { PipelineRequest("image", <<"q">>, "{}", <<"3">>, <<"x">>),
                                PipelineRequest("widget", <<"v">>, "{}", <<"3">>, <<"x">>) },
          failing \in {"resolver", "compositor", "quantizer"} : RenderFails(r, failing)

SpecRPFail == InitRP /\ [][NextRPFail]_vars

\* RendererPipeline.render called from NumThreads threads at once
NextRenderRace ==
    \/ \E t \in Threads, r \in Requests : RenderBegin(t, r)
    \/ \E t \in Threads : RenderOpen(t)
    \/ \E t \in Threads : CacheCreate(t)
    \/ \E t \in Threads : CacheWrite(t)
    \/ \E t \in Threads : OutputPick(t)
    \/ \E t \in Threads : OutputSave(t)
    \/ ClockTick

SpecRenderRace == InitRP /\ [][NextRenderRace]_vars

\* apply_palette on a composed image: an image in hand, nothing quantized yet
InitAP ==
    /\ now = 0
    /\ IdleTTL
    /\ cfg = DefaultConfig
    /\ EmptyTiers
    /\ recent = <<>>
    /\ stat = [mtime |-> 1, size |-> 1]
    /\ cache_dir = EmptyDir
    /\ image_dir = EmptyDir
    /\ result = <<>>
    /\ raised = "None"
    /\ quantized \in { [image |-> i, palette_name |-> <<>>, dither |-> <<>>,
                        out |-> [width |-> 0, height |-> 0, px |-> <<>>]] : i \in Images }
    /\ threads = [t \in Threads |-> IdleThread]

\* the palette names 3, Tri and inky4 and an unknown one; the dither modes
\* none and Atk, an unknown one and the empty one
NextAP ==
    \E palette_name \in {<<"3">>, <<"T", "r", "i">>, <<"i", "n", "k", "y", "4">>, <<"x">>},
       dither \in {<<"n", "o", "n", "e">>, <<"A", "t", "k">>, <<"x">>, <<>>} :
        Quantize(palette_name, dither)

SpecAP == InitAP /\ [][NextAP]_vars

(***************************************************************************)
(* Claims about _TTLCache (checked under SpecTTL).                         *)
(***************************************************************************)

CallersOf(k) == { c \in Callers : callers[c].key = k }
RefreshersOf(k) == { r \in Refreshers : refreshers[r].key = k }
InvokedLoader(r) == refreshers[r].pc \in {"loading", "done", "failed"}

\* C1: for every key, at most one loader invocation (cold-miss load or
\* background refresh) is in flight at any time.
C1_AtMostOneLoaderInFlight ==
    \A k \in Keys : Cardinality(Loading(k)) <= 1

\* A refresh task is running the loader of a key while another task queues on
\* that key's lock.
C1_Witness ==
    \E r \in Refreshers :
        /\ refreshers[r].pc = "loading"
        /\ locks[refreshers[r].key].waiters # <<>>

\* C2 as claimed: when all calls for a key were made while it was uncached and
\* no loader failed, the loader is invoked once in total and every caller that
\* returned got the value of that invocation.
C2_LoaderInvokedOnceInTotal ==
    \A k \in Keys :
        ( /\ RefreshersOf(k) = {}
          /\ \A c \in CallersOf(k) :
                 callers[c].klass = "absent" /\ callers[c].pc \notin {"raised", "cancelled"} )
        => /\ loads[k] <= 1
           /\ \A c \in CallersOf(k) : callers[c].pc = "done" => callers[c].result = 1

\* C2 amended: while the entry stored by the first loader invocation of a key
\* is still fresh, the loader has been invoked exactly once for that key and
\* every caller that has returned got that invocation's value.
C2_SingleFlightWhileFresh ==
    \A k \in Keys :
        (entries[k].present /\ entries[k].value = 1 /\ is_fresh(entries[k], now))
        => /\ loads[k] = 1
           /\ \A c \in CallersOf(k) : callers[c].pc = "done" => callers[c].result = 1

\* All callers called the same uncached key, all but the first waited on the
\* lock, one load ran and everybody returned its value.
C2_Witness ==
    \E k \in Keys :
        /\ loads[k] = 1
        /\ entries[k].present /\ is_fresh(entries[k], now)
        /\ \A c \in Callers :
               /\ callers[c].key = k
               /\ callers[c].pc = "done"
               /\ callers[c].klass = "absent"
               /\ callers[c].result = 1
               /\ (c > 1 => callers[c].waited)

\* C3 as claimed: the stale reads of a key made before a refresh has completed
\* cause exactly one loader invocation, i.e. no two refresh tasks scheduled
\* within the same refresh epoch of a key both invoke the loader.
C3_ExactlyOneRefreshPerStaleWindow ==
    \A r1, r2 \in Refreshers :
        ( /\ r1 # r2
          /\ refreshers[r1].key = refreshers[r2].key
          /\ refreshers[r1].epoch = refreshers[r2].epoch
          /\ InvokedLoader(r1) )
        => ~InvokedLoader(r2)

\* C4 as claimed: a loader exception reaches a caller only when no previous
\* value exists for the key.
C4_RaisedOnlyWithoutPreviousValue ==
    \A c \in Callers : callers[c].pc = "raised" => ~callers[c].prev

\* C4 amended: a loader exception reaches a caller only on the expired/absent
\* path (the call found no entry, or an entry at or past stale_at), whether or
\* not an expired value is still stored; a failing background refresh changes
\* no caller's outcome.
C4_RaisedOnlyOnExpiredOrAbsentPath ==
    /\ [](\A c \in Callers :
            callers[c].pc = "raised" => callers[c].klass \in {"absent", "expired"})
    /\ [][\A r \in Refreshers :
            (refreshers[r].pc = "loading" /\ refreshers'[r].pc = "failed")
            => callers' = callers]_vars

\* A caller got the loader's exception although an expired value was stored.
C4_Witness ==
    \E c \in Callers :
        /\ callers[c].pc = "raised"
        /\ callers[c].klass = "expired"
        /\ callers[c].prev
        /\ entries[callers[c].key].present

\* C5: when the loader raises in a background refresh the stored entry is left
\* as it was and the lock is released; a read in the stale window returns the
\* stored (old) value.
C5_FailedRefreshKeepsEntry ==
    /\ [][\A r \in Refreshers :
            (refreshers[r].pc = "loading" /\ refreshers'[r].pc = "failed")
            => /\ entries' = entries
               /\ ~locks'[refreshers[r].key].locked]_vars
    /\ [][\A c \in Callers :
            (callers[c].pc = "idle" /\ callers'[c].klass = "stale")
            => /\ callers'[c].pc = "done"
               /\ callers'[c].result = entries[callers'[c].key].value
               /\ entries' = entries]_vars

\* A refresh failed and the entry it should have replaced is still stored,
\* stale, with its lock free.
C5_Witness ==
    \E r \in Refreshers :
        /\ refreshers[r].pc = "failed"
        /\ Klass(entries[refreshers[r].key], now) = "stale"
        /\ ~locks[refreshers[r].key].locked
        /\ \A q \in Refreshers : refreshers[q].pc # "done"

\* C6 as claimed: when the caller that started a loader abandons its wait,
\* the loader is still in flight afterwards.
C6_AbandonedLoadKeepsRunning ==
    [][\A c \in Callers :
         (callers[c].pc = "loading" /\ callers'[c].pc = "cancelled")
         => \E d \in Callers :
                callers'[d].pc = "loading" /\ callers'[d].key = callers[c].key]_vars

\* C24: a background refresh that completes successfully stores the value it
\* loaded in place of the older one; the stored value is never replaced by
\* an older one, and a call that returns afterwards returns the stored value
\* or, when it loads itself, a newer one that it stores: never the value
\* from before the refresh.  A refresh task that a stale read created
\* completes (or the bound on loader invocations is reached) when loaders
\* terminate.
C24_RefreshedValueReplacesOld ==
    /\ [][\A r \in Refreshers :
            (refreshers[r].pc = "loading" /\ refreshers'[r].pc = "done")
            => /\ entries'[refreshers[r].key].present
               /\ entries'[refreshers[r].key].value = refreshers[r].ld
               /\ entries[refreshers[r].key].value < refreshers[r].ld]_vars
    /\ [][\A k \in Keys :
            entries[k].present
            => entries'[k].present /\ entries'[k].value >= entries[k].value]_vars
    /\ [][\A c \in Callers :
            (callers[c].pc # "done" /\ callers'[c].pc = "done")
            => IF callers[c].pc = "loading"
               THEN /\ callers'[c].result > entries[callers'[c].key].value
                    /\ callers'[c].result = entries'[callers'[c].key].value
               ELSE callers'[c].result = entries[callers'[c].key].value]_vars
    /\ \A r \in Refreshers :
          (refreshers[r].pc = "scheduled")
          ~> (\/ refreshers[r].pc \in {"done", "failed"}
              \/ \E k \in Keys : refreshers[r].key = k /\ loads[k] = MaxLoads)

\* A stale read returned the old value and created a refresh task; the task
\* completed, and a call made afterwards returned the refreshed value, which
\* is the stored one.
C24_Witness ==
    \E r \in Refreshers, c1, c2 \in Callers :
        LET k == refreshers[r].key
        IN /\ refreshers[r].pc = "done"
           /\ callers[c1].key = k /\ callers[c1].klass = "stale"
           /\ callers[c1].pc = "done" /\ callers[c1].result = 1
           /\ callers[c2].key = k /\ callers[c2].klass = "fresh"
           /\ callers[c2].pc = "done" /\ callers[c2].result = 2
           /\ entries[k].value = 2
           /\ c1 < c2

\* C25: get_or_load on a fresh entry (now < expires_at) returns the stored
\* value at once, invokes no loader, schedules no refresh, takes no lock and
\* leaves the stored entry as it was.
C25_FreshReadHasNoEffect ==
    [][\A c \in Callers :
         (callers[c].pc = "idle" /\ callers'[c].klass = "fresh")
         => /\ callers'[c].pc = "done"
            /\ callers'[c].result = entries[callers'[c].key].value
            /\ entries' = entries
            /\ loads' = loads
            /\ refreshers' = refreshers
            /\ locks' = locks]_vars

\* A call found a fresh entry that a load had stored, and returned its value,
\* with no refresh task ever created.
C25_Witness ==
    \E c \in Callers :
        /\ callers[c].pc = "done"
        /\ callers[c].klass = "fresh"
        /\ callers[c].result = entries[callers[c].key].value
        /\ loads[callers[c].key] = 1
        /\ \A r \in Refreshers : refreshers[r].pc = "free"

(***************************************************************************)
(* Claims about the tiered cache (checked under SpecCM).  A claim about    *)
(* what holds after an operation is stated on the tiers the operation      *)
(* leaves behind (AfterStore, AfterLookup, AfterInvalidate) when it is     *)
(* called in a reachable state.                                            *)
(***************************************************************************)

\* what each tier holds, read off the tier's state
MemHolds(ns, key) ==
    /\ MemEnabled
    /\ \E i \in 1..Len(mem) :
          /\ mem[i].namespace = ns /\ mem[i].key = key
          /\ ~(mem[i].expires_at.some /\ mem[i].expires_at.v <= now)

FilesHolds(ns, key) ==
    /\ FilesEnabled
    /\ LET r == files[PathFor(ns, key)]
       IN /\ r.png # NoFile /\ r.meta.exists
          /\ ~(r.meta.expires_at.some /\ r.meta.expires_at.v <= now)

DbHolds(ns, key) ==
    /\ SqliteEnabled
    /\ db[<<ns, key>>].exists
    /\ ~(db[<<ns, key>>].expires_at.some /\ db[<<ns, key>>].expires_at.v <= now)

\* every enabled tier returns an unexpired entry for (ns, key) whose bytes
\* are payload
TiersServe(s, t, ns, key, payload) ==
    /\ MemEnabled =>
          /\ MemGetResult(s.mem, ns, key, t).hit
          /\ MemGetResult(s.mem, ns, key, t).payload.bytes = payload
    /\ FilesEnabled =>
          /\ FilesGetResult(s.files, ns, key, t).hit
          /\ FilesRead(s.files, ns, key, t) = payload
    /\ SqliteEnabled =>
          /\ SqliteGetResult(s.db, ns, key, t).hit
          /\ SqliteRead(s.db, ns, key, t) = payload

\* C7 as claimed: after store(ns, key, payload) every enabled tier returns an
\* unexpired entry carrying the payload, and read(ns, key) returns the payload.
C7_StoreThenEveryTierAndRead ==
    \A q \in Pairs, payload \in Payloads, ttl \in TtlInputs, metadata \in Metas :
        LET s == AfterStore(Current, now, q[1], q[2], payload, ttl, metadata)
        IN /\ TiersServe(s, now, q[1], q[2], payload)
           /\ CMReadValue(s, now, q[1], q[2]) = payload

\* C7 amended: after store(ns, key, payload) every enabled tier returns an
\* unexpired entry carrying the payload, and, when at least one tier is
\* enabled, read(ns, key) returns the payload.
C7_StoreWritesThrough ==
    \A q \in Pairs, payload \in Payloads, ttl \in TtlInputs, metadata \in Metas :
        LET s == AfterStore(Current, now, q[1], q[2], payload, ttl, metadata)
        IN /\ TiersServe(s, now, q[1], q[2], payload)
           /\ (MemEnabled \/ FilesEnabled \/ SqliteEnabled)
                  => CMReadValue(s, now, q[1], q[2]) = payload

\* All tiers are enabled, the memory tier has room for fewer entries than
\* there are keys, and after a store the three tiers serve the same payload
\* for <<"A", "k">>, stored over the file and after the row of <<"a", "k">>.
C7_Witness ==
    /\ MemEnabled /\ FilesEnabled /\ SqliteEnabled
    /\ cfg.max_items = MaxItems - 1
    /\ TiersServe(Current, now, <<"A">>, <<"k">>, "p2")
    /\ CMReadValue(Current, now, <<"A">>, <<"k">>) = "p2"
    /\ db[<< <<"a">>, <<"k">> >>].exists
    /\ db[<< <<"a">>, <<"k">> >>].payload = "p1"

\* C8 as claimed: a lookup that misses in memory and hits in a durable tier
\* leaves the entry in the memory tier.
C8_DurableHitPromotedToMemory ==
    \A q \in Pairs :
        ( /\ MemEnabled
          /\ ~MemGetResult(mem, q[1], q[2], now).hit
          /\ FirstHit(TierOrder, Current, now, q[1], q[2]) \in {"files", "sqlite"} )
        => MemGetResult(AfterLookup(Current, now, q[1], q[2]).mem, q[1], q[2], now).hit

\* C9: get returns the entry of the first enabled tier, in the order memory,
\* files, sqlite, that holds an unexpired entry, and misses exactly when no
\* enabled tier holds one.
C9_GetReturnsFirstTierHit ==
    \A q \in Pairs :
        LET ns == q[1]
            key == q[2]
            v == CMGetValue(Current, now, ns, key)
        IN /\ v.hit <=> (MemHolds(ns, key) \/ FilesHolds(ns, key) \/ DbHolds(ns, key))
           /\ MemHolds(ns, key) =>
                 /\ v.payload.path = NoPath
                 /\ \E i \in 1..Len(mem) : mem[i] = v
           /\ (~MemHolds(ns, key) /\ FilesHolds(ns, key)) =>
                 /\ v.payload.path = PathFor(ns, key)
                 /\ v.expires_at = files[PathFor(ns, key)].meta.expires_at
                 /\ v.created_at = files[PathFor(ns, key)].meta.created_at
           /\ (~MemHolds(ns, key) /\ ~FilesHolds(ns, key) /\ DbHolds(ns, key)) =>
                 /\ v.payload = BytesPayload(db[q].payload)
                 /\ v.expires_at = db[q].expires_at
                 /\ v.created_at = db[q].created_at

\* The memory tier is enabled and misses, and both durable tiers hold the
\* entry: get serves the files tier's entry.
C9_Witness ==
    \E q \in Pairs :
        /\ MemEnabled /\ ~MemHolds(q[1], q[2])
        /\ FilesHolds(q[1], q[2]) /\ DbHolds(q[1], q[2])
        /\ CMGetValue(Current, now, q[1], q[2]).payload.path = PathFor(q[1], q[2])

\* C10: after invalidate(ns, key) no tier returns an entry for (ns, key);
\* after invalidate(ns) none returns an entry for any key of ns.
C10_InvalidateRemovesEverywhere ==
    \A ns \in Namespaces, key \in KeyOpts :
        LET s == AfterInvalidate(Current, ns, key)
        IN \A q \in Pairs :
              (q[1] = ns /\ (key.some => q[2] = key.v))
              => /\ ~MemGetResult(s.mem, q[1], q[2], now).hit
                 /\ ~FilesGetResult(s.files, q[1], q[2], now).hit
                 /\ ~SqliteGetResult(s.db, q[1], q[2], now).hit
                 /\ ~CMGetValue(s, now, q[1], q[2]).hit

\* Namespace "a" was invalidated as a whole: with all tiers enabled and no
\* time elapsed, no tier serves a key of "a", while the row of <<"A", "k">>,
\* whose file shared the directory of "a", is still in the database.
C10_Witness ==
    /\ MemEnabled /\ FilesEnabled /\ SqliteEnabled
    /\ now = 0
    /\ db[<< <<"A">>, <<"k">> >>].exists
    /\ \A q \in Pairs :
          q[1] = <<"a">> =>
             /\ ~MemGetResult(mem, q[1], q[2], now).hit
             /\ ~FilesGetResult(files, q[1], q[2], now).hit
             /\ ~SqliteGetResult(db, q[1], q[2], now).hit

\* C11 as claimed: when the removal fails in one tier during
\* CacheManager.invalidate(namespace, key), the entry is still removed from
\* every other enabled tier.
C11_FailureDoesNotBlockOthers ==
    \A q \in Pairs, failing \in {"files", "sqlite"}, partial \in BOOLEAN :
        TierEnabled(failing)
        => LET after == AfterInvalidateRaising(Current, q[1], KeyOf(q[2]), failing, partial)
           IN \A tier \in {"memory", "files", "sqlite"} \ {failing} :
                 TierEnabled(tier) => ~TierGet(tier, after, now, q[1], q[2]).hit

\* an expiry time at or before the current time
Due(expires_at) == expires_at.some /\ expires_at.v <= now

\* C12: in every tier, get returns no entry whose expires_at is at or before
\* the current time; a lookup that finds such an entry misses and removes it
\* from the tier (in the files tier the payload file and the sidecar).
C12_GetNeverReturnsExpired ==
    \A q \in Pairs :
        LET ns == q[1]
            key == q[2]
            e == MemFind(mem, ns, key)
            f == files[PathFor(ns, key)]
            row == db[q]
        IN /\ \A tier \in {"memory", "files", "sqlite"} :
                 LET got == TierGet(tier, Current, now, ns, key)
                 IN got.hit => ~Due(got.expires_at)
           /\ (MemEnabled /\ e.hit /\ Due(e.expires_at))
              => /\ ~MemGetResult(mem, ns, key, now).hit
                 /\ ~MemFind(MemAfterGet(mem, ns, key, now), ns, key).hit
           /\ (FilesEnabled /\ f.png # NoFile /\ f.meta.exists /\ Due(f.meta.expires_at))
              => /\ ~FilesGetResult(files, ns, key, now).hit
                 /\ FilesAfterGet(files, ns, key, now)[PathFor(ns, key)] = NoFiles
           /\ (SqliteEnabled /\ row.exists /\ Due(row.expires_at))
              => /\ ~SqliteGetResult(db, ns, key, now).hit
                 /\ ~SqliteAfterGet(db, ns, key, now)[q].exists

\* All three tiers hold an entry of one key whose expiry time has come, and
\* a lookup of the key finds nothing and leaves none of the three behind.
C12_Witness ==
    \E q \in Pairs :
        LET after == AfterLookup(Current, now, q[1], q[2])
        IN /\ MemEnabled /\ FilesEnabled /\ SqliteEnabled
           /\ MemFind(mem, q[1], q[2]).hit /\ Due(MemFind(mem, q[1], q[2]).expires_at)
           /\ files[PathFor(q[1], q[2])].png # NoFile
           /\ Due(files[PathFor(q[1], q[2])].meta.expires_at)
           /\ db[q].exists /\ Due(db[q].expires_at)
           /\ ~CMGetValue(Current, now, q[1], q[2]).hit
           /\ ~MemFind(after.mem, q[1], q[2]).hit
           /\ after.files[PathFor(q[1], q[2])] = NoFiles
           /\ ~after.db[q].exists

\* C13: after cleanup() no enabled tier holds an entry whose expires_at is
\* at or before the cleanup time, and every entry a tier served before is
\* served afterwards, with the same payload.
C13_CleanupPurgesExpiredOnly ==
    LET after == AfterCleanup(Current, now)
    IN \A q \in Pairs :
          LET ns == q[1]
              key == q[2]
          IN /\ MemEnabled => ~Due(MemFind(after.mem, ns, key).expires_at)
             /\ FilesEnabled => ~Due(after.files[PathFor(ns, key)].meta.expires_at)
             /\ SqliteEnabled => ~Due(after.db[q].expires_at)
             /\ \A tier \in {"memory", "files", "sqlite"} :
                   TierGet(tier, Current, now, ns, key).hit
                   => /\ TierGet(tier, after, now, ns, key) = TierGet(tier, Current, now, ns, key)
                      /\ TierRead(tier, after, now, ns, key) = TierRead(tier, Current, now, ns, key)

\* With every tier enabled, one key is held in the durable tiers past its
\* expiry time and another key is served by all three: cleanup removes the
\* first and keeps the second.
C13_Witness ==
    \E q1, q2 \in Pairs :
        LET after == AfterCleanup(Current, now)
        IN /\ MemEnabled /\ FilesEnabled /\ SqliteEnabled
           /\ files[PathFor(q1[1], q1[2])].png # NoFile
           /\ Due(files[PathFor(q1[1], q1[2])].meta.expires_at)
           /\ db[q1].exists /\ Due(db[q1].expires_at)
           /\ after.files[PathFor(q1[1], q1[2])] = NoFiles
           /\ ~after.db[q1].exists
           /\ MemHolds(q2[1], q2[2]) /\ FilesHolds(q2[1], q2[2]) /\ DbHolds(q2[1], q2[2])
           /\ \E payload \in Payloads : TiersServe(after, now, q2[1], q2[2], payload)

\* the keys the memory tier holds
Held(m) == { <<m[i].namespace, m[i].key>> : i \in 1..Len(m) }

\* C14: when the store of a new key pushes the memory tier over max_items,
\* exactly one entry is evicted, the least recently accessed one, where a
\* store and a successful get make a key the most recently used.
C14_EvictsLeastRecentlyAccessed ==
    MemEnabled =>
        /\ { recent[i] : i \in 1..Len(recent) } = Held(mem)
        /\ \A q \in Pairs \ Held(mem), ttl \in TtlInputs :
              LET after == MemStore(mem, q[1], q[2], "p1", ttl, "m1", now)
              IN Len(mem) = cfg.max_items
                 => /\ Held(after) = (Held(mem) \cup {q}) \ {recent[1]}
                    /\ Len(after) = cfg.max_items

\* The memory tier is full with two keys; a get of the older one is served
\* and the store of a third key then evicts the other one.
C14_Witness ==
    \E q \in Pairs \ Held(mem) :
        LET promoted == MemAfterGet(mem, recent[1][1], recent[1][2], now)
            after == MemStore(promoted, q[1], q[2], "p1", NoneOpt, "m1", now)
        IN /\ MemEnabled /\ cfg.max_items = 2 /\ Len(mem) = 2
           /\ MemGetResult(mem, recent[1][1], recent[1][2], now).hit
           /\ Held(after) = {recent[1], q}

\* C15: an enabled memory tier never holds more than max_items entries,
\* whatever store, get, invalidate and cleanup operations were applied, in
\* whatever interleaving (each runs under the cache's lock).
C15_MemoryNeverOverCapacity ==
    /\ MemEnabled => Len(mem) <= cfg.max_items
    /\ MemEnabled =>
          \A q \in Pairs :
              Len(MemStore(mem, q[1], q[2], "p1", NoneOpt, "m1", now)) <= cfg.max_items

\* The memory tier is full and the store of one more key leaves it full.
C15_Witness ==
    /\ MemEnabled /\ Len(mem) = cfg.max_items
    /\ \E q \in Pairs \ Held(mem) :
          Len(MemStore(mem, q[1], q[2], "p1", NoneOpt, "m1", now)) = cfg.max_items

\* C26: storing a pair again leaves one entry for it in each enabled tier,
\* with the payload and the metadata of the latest store; a further store
\* with the same payload and metadata changes nothing that can be retrieved.
C26_StoreReplaces ==
    \A q \in Pairs :
        LET p2 == "p2"
            first == AfterStore(Current, now, q[1], q[2], "p1", NoneOpt, "m1")
            second == AfterStore(first, now, q[1], q[2], p2, NoneOpt, "m2")
            third == AfterStore(second, now, q[1], q[2], p2, NoneOpt, "m2")
        IN /\ TiersServe(second, now, q[1], q[2], p2)
           /\ MemEnabled =>
                 Cardinality({ i \in 1..Len(second.mem) :
                     second.mem[i].namespace = q[1] /\ second.mem[i].key = q[2] }) = 1
           /\ \A tier \in {"memory", "files", "sqlite"} :
                 TierEnabled(tier)
                 => /\ TierGet(tier, second, now, q[1], q[2]).metadata = "m2"
                    /\ TierGet(tier, third, now, q[1], q[2]) = TierGet(tier, second, now, q[1], q[2])
                    /\ TierRead(tier, third, now, q[1], q[2]) = p2
           /\ Len(third.mem) = Len(second.mem)

\* Every tier serves payload "p1" for a key, so that a store of "p2" for it
\* is a second store, after which every tier serves "p2".
C26_Witness ==
    \E q \in Pairs :
        /\ MemEnabled /\ FilesEnabled /\ SqliteEnabled
        /\ TiersServe(Current, now, q[1], q[2], "p1")
        /\ TiersServe(AfterStore(Current, now, q[1], q[2], "p2", NoneOpt, "m2"),
                      now, q[1], q[2], "p2")

\* C27: the entry a tier's store produces has no expires_at exactly when the
\* effective ttl (the ttl passed, or the tier's default when none is passed)
\* is missing or not positive, and otherwise an expires_at that is not
\* before created_at.
C27_ExpiryAbsentOrLater ==
    \A ttl \in {NoneOpt, Some(-1), Some(0), Some(1)} :
        LET q == << <<"a">>, <<"k">> >>
            s == AfterStore(Current, now, q[1], q[2], "p1", ttl, "m1")
            absent == ttl.some /\ ttl.v <= 0
        IN /\ \A tier \in {"memory", "files", "sqlite"} :
                 TierEnabled(tier)
                 => LET e == TierGet(tier, s, now, q[1], q[2])
                    IN /\ e.hit /\ e.created_at = now
                       /\ e.expires_at.some <=> ~absent
                       /\ e.expires_at.some => e.expires_at.v >= e.created_at
           /\ \A default_ttl \in {NoneOpt, Some(0), Some(2)} :
                 LET x == Expiry(default_ttl, ttl, now)
                     eff == IF ttl.some THEN ttl ELSE default_ttl
                 IN /\ x.some <=> (eff.some /\ eff.v > 0)
                    /\ x.some => x.v >= now

\* Every tier holds a key with an expiry time, and a store of the key with
\* ttl = 0 leaves it in every tier with no expiry time.
C27_Witness ==
    \E q \in Pairs :
        LET s == AfterStore(Current, now, q[1], q[2], "p1", Some(0), "m1")
        IN /\ MemHolds(q[1], q[2]) /\ FilesHolds(q[1], q[2]) /\ DbHolds(q[1], q[2])
           /\ db[q].expires_at.some
           /\ \A tier \in {"memory", "files", "sqlite"} :
                 /\ TierGet(tier, s, now, q[1], q[2]).hit
                 /\ ~TierGet(tier, s, now, q[1], q[2]).expires_at.some

\* C28: with the three tiers disabled, store keeps nothing, get and read
\* miss, and invalidate and cleanup find nothing to remove: the tiers are
\* empty and every operation leaves them so.
C28_NoTierEnabledPassesThrough ==
    (~MemEnabled /\ ~FilesEnabled /\ ~SqliteEnabled)
    => /\ Current = Tiers(<<>>, [p \in Paths |-> NoFiles], [q \in Pairs |-> NoRow])
       /\ \A q \in Pairs :
             /\ \A payload \in Payloads, ttl \in TtlInputs :
                   AfterStore(Current, now, q[1], q[2], payload, ttl, "m1") = Current
             /\ ~CMGetValue(Current, now, q[1], q[2]).hit
             /\ CMReadValue(Current, now, q[1], q[2]) = NoBytes
             /\ AfterLookup(Current, now, q[1], q[2]) = Current
       /\ \A ns \in Namespaces, key \in KeyOpts : AfterInvalidate(Current, ns, key) = Current
       /\ AfterCleanup(Current, now) = Current

\* No tier is enabled and the clock has advanced: stores, lookups,
\* invalidations and cleanups have been made along the way.
C28_Witness ==
    /\ ~MemEnabled /\ ~FilesEnabled /\ ~SqliteEnabled
    /\ now = MaxClock
    /\ AfterStore(Current, now, <<"a">>, <<"k">>, "p1", NoneOpt, "m1") = Current

\* C29 as claimed: when the sidecar of a stored key cannot be read or
\* parsed, the files tier's lookup does not raise, and it serves the entry
\* with empty metadata when the payload file exists.
C29_DamagedSidecarNeverRaises ==
    \A q \in Pairs, damage \in {"no JSON", "no UTF-8", "no permission", "no object"} :
        LET got == FilesGetDamaged(files, q[1], q[2], now, damage)
        IN /\ got.outcome = "returns"
           /\ (FilesEnabled /\ files[PathFor(q[1], q[2])].png # NoFile)
              => got.entry.hit /\ got.entry.metadata = NoMeta

(***************************************************************************)
(* Claims about RendererPipeline (checked under SpecRP).                   *)
(***************************************************************************)

ConfigChanged(r) ==
    { q \in Requests : r.source = "widget" /\ q.config # r.config
                       /\ [q EXCEPT !.config = r.config] = r }

\* C17 as claimed: after a render, changing the source file's mtime or size,
\* or the config of the widget request, changes the cache key, and the next
\* render has from_cache = false.
C17_ChangeForcesFreshRender ==
    \A r \in Requests :
        LET before == Render(Disk(cache_dir, image_dir), stat, now, r)
        IN /\ r.source = "image" =>
                \A st \in Stats \ {stat} :
                    LET after == Render(before.disk, st, now, r)
                    IN after.cache_key # before.cache_key /\ ~after.from_cache
           /\ \A q \in ConfigChanged(r) :
                    LET after == Render(before.disk, stat, now, q)
                    IN after.cache_key # before.cache_key /\ ~after.from_cache

\* C17 amended: changing the source file's mtime or size, or the config of
\* the widget request to one that differs as a mapping (None counts as {}),
\* changes the cache key; the next render has from_cache = false unless the
\* cache already holds a bitmap under the new key.
C17_ChangeChangesKey ==
    \A r \in Requests :
        LET before == Render(Disk(cache_dir, image_dir), stat, now, r)
        IN /\ r.source = "image" =>
                \A st \in Stats \ {stat} :
                    LET after == Render(before.disk, st, now, r)
                    IN /\ after.cache_key # before.cache_key
                       /\ after.cache_key \notin DOMAIN cache_dir => ~after.from_cache
           /\ \A q \in ConfigChanged(r) :
                    LET after == Render(before.disk, stat, now, q)
                    IN OrEmpty(q.config) # OrEmpty(r.config)
                       => /\ after.cache_key # before.cache_key
                          /\ after.cache_key \notin DOMAIN cache_dir => ~after.from_cache

\* The image was rendered, its file changed, and the same request was
\* rendered again under another key, afresh.
C17_Witness ==
    \E i \in 1..(Len(result) - 1) :
        /\ result[i + 1].request = result[i].request
        /\ result[i].request.source = "image"
        /\ result[i + 1].image.base.stat # result[i].image.base.stat
        /\ result[i + 1].cache_key # result[i].cache_key
        /\ ~result[i + 1].from_cache

\* C18 as claimed: two render calls use the same cache key only if their
\* requests agree on source, identifier, version token, layout, theme,
\* palette, dither and separators.
C18_SameKeyOnlyForSameFields ==
    \A i, j \in 1..Len(result) :
        result[i].cache_key = result[j].cache_key
        => /\ result[i].request.palette = result[j].request.palette
           /\ result[i].request.dither = result[j].request.dither
           /\ result[i].request.source = result[j].request.source
           /\ result[i].request.identifier = result[j].request.identifier
           /\ result[i].request.layout = result[j].request.layout
           /\ result[i].request.theme = result[j].request.theme
           /\ result[i].request.separators = result[j].request.separators

\* C19 as claimed: a render served from the cache invokes neither the
\* content resolver nor the compositor nor the quantizer, and writes its
\* output to a new file.
C19_HitInvokesNoStage ==
    \A i \in 1..Len(result) :
        result[i].from_cache
        => /\ result[i].invoked = {}
           /\ \A j \in 1..Len(result) :
                 j # i => result[j].output_path # result[i].output_path

\* C20: a render writes its output to a path that did not exist before and
\* leaves every existing file as it was; a second call for the same request
\* in the same second writes another file, named with a numeric suffix, and
\* both files are present afterwards.
C20_OutputNeverOverwrites ==
    \A r \in Requests :
        LET first == Render(Disk(cache_dir, image_dir), stat, now, r)
            second == Render(first.disk, stat, now, r)
            files2 == second.disk.image_dir
        IN /\ first.output_path \notin DOMAIN image_dir
           /\ \A n \in DOMAIN image_dir : first.disk.image_dir[n] = image_dir[n]
           /\ second.output_path \notin DOMAIN first.disk.image_dir
           /\ \E k \in 1..MaxRenders + 1 :
                 second.output_path = BaseName(now, r) \o <<"_", Dec[k], ".png">>
           /\ {first.output_path, second.output_path} \subseteq DOMAIN files2
           /\ files2[first.output_path] = PngEncode(first.image)
           /\ files2[second.output_path] = PngEncode(second.image)

\* Two calls for the same request were made in the same second: the second
\* output carries the suffix _1 and both files are in image_dir.
C20_Witness ==
    \E i \in 1..(Len(result) - 1) :
        /\ result[i + 1].request = result[i].request
        /\ result[i].output_path = BaseName(now, result[i].request) \o <<".png">>
        /\ result[i + 1].output_path =
               BaseName(now, result[i].request) \o <<"_", "1", ".png">>
        /\ {result[i].output_path, result[i + 1].output_path} \subseteq DOMAIN image_dir

(***************************************************************************)
(* Claims about apply_palette (specification SpecAP)                       *)
(***************************************************************************)

\* C22: every pixel of the image apply_palette returns is a colour of the
\* resolved palette, and the image keeps its size, for nearest-colour mapping
\* and for both error-diffusion matrices.
C22_OutputPixelsFromPalette ==
    quantized.out.px # <<>> =>
        LET palette == ResolvePalette(quantized.palette_name)
        IN /\ quantized.out.width = quantized.image.width
           /\ quantized.out.height = quantized.image.height
           /\ Len(quantized.out.px) = Len(quantized.image.px)
           /\ \A k \in DOMAIN quantized.out.px :
                 \E i \in DOMAIN palette : quantized.out.px[k] = palette[i]
           /\ \A matrix \in {Matrices.FLOYD_STEINBERG, Matrices.ATKINSON} :
                 \A k \in DOMAIN quantized.image.px :
                     \E i \in DOMAIN palette :
                         ErrorDiffuse(quantized.image, palette, matrix).px[k] = palette[i]

\* Atkinson diffusion has been applied to a two-pixel image and the error of
\* the first pixel changed what the second pixel became.
C22_Witness ==
    /\ quantized.dither = <<"A", "t", "k">>
    /\ Len(quantized.out.px) = 2
    /\ quantized.out.px[2]
         # MapPalette(quantized.image, ResolvePalette(quantized.palette_name)).px[2]
    /\ \E i \in 1..3 : quantized.out.px[2] = ResolvePalette(quantized.palette_name)[i]

\* C23: for every input colour (the pixels of the image, and the colours half
\* a unit below them) and every preset, _nearest_color returns a palette
\* entry at the smallest squared Euclidean RGB distance, the first such entry
\* in palette order; nearest-colour mapping gives each pixel that entry.
C23_NearestIsFirstMinimum ==
    LET Dist(c, p) == (c[1] - 16 * p[1]) * (c[1] - 16 * p[1])
                      + (c[2] - 16 * p[2]) * (c[2] - 16 * p[2])
                      + (c[3] - 16 * p[3]) * (c[3] - 16 * p[3])
        IsFirstMinimum(c, palette, best) ==
            \E i \in DOMAIN palette :
                /\ palette[i] = best
                /\ \A j \in DOMAIN palette :
                      /\ Dist(c, palette[j]) >= Dist(c, palette[i])
                      /\ j < i => Dist(c, palette[j]) > Dist(c, palette[i])
    IN /\ \A k \in DOMAIN quantized.image.px, half \in {0, 8}, key \in DOMAIN EINK_PALETTES :
             LET c == [ch \in 1..3 |->
                          IF 16 * quantized.image.px[k][ch] >= half
                          THEN 16 * quantized.image.px[k][ch] - half ELSE 0]
             IN IsFirstMinimum(c, EINK_PALETTES[key], NearestColor(c, EINK_PALETTES[key]))
       /\ quantized.out.px # <<>> /\ DitherMode(quantized.dither) = "none"
          => \A k \in DOMAIN quantized.out.px :
                 IsFirstMinimum([ch \in 1..3 |-> 16 * quantized.image.px[k][ch]],
                                ResolvePalette(quantized.palette_name), quantized.out.px[k])

\* Nearest-colour mapping onto the palette "3" (white, black, red) has been
\* applied to an image with a yellow pixel, which is as far from white as
\* from red, and the pixel became white, the earlier of the two.
C23_Witness ==
    /\ quantized.palette_name = <<"3">>
    /\ quantized.dither = <<"n", "o", "n", "e">>
    /\ \E k \in DOMAIN quantized.out.px :
          /\ quantized.image.px[k] = <<255, 255, 0>>
          /\ quantized.out.px[k] = <<255, 255, 255>>

\* C30: a palette name that is neither a preset nor an alias resolves to the
\* preset "7", and a dither mode that is not none, off or false and does not
\* start with atk selects Floyd-Steinberg diffusion; apply_palette returns an
\* image for them.
C30_UnknownNamesFallBack ==
    LET lower(t) == [i \in DOMAIN t |-> Lower(t[i])]
        unknown_palette ==
            lower(quantized.palette_name)
                \notin {<<"3">>, <<"4">>, <<"7">>, <<"8">>, <<"t", "r", "i">>,
                        <<"i", "n", "k", "y", "3">>, <<"i", "n", "k", "y", "4">>,
                        <<"i", "n", "k", "y", "7">>, <<"i", "n", "k", "y", "8">>}
        unknown_dither ==
            /\ lower(quantized.dither)
                   \notin {<<"n", "o", "n", "e">>, <<"o", "f", "f">>, <<"f", "a", "l", "s", "e">>}
            /\ ~(Len(quantized.dither) >= 3
                 /\ SubSeq(lower(quantized.dither), 1, 3) = <<"a", "t", "k">>)
    IN quantized.out.px # <<>> =>
          /\ unknown_palette
             => /\ ResolvePalette(quantized.palette_name) = EINK_PALETTES[<<"7">>]
                /\ quantized.out = ApplyPalette(quantized.image, <<"7">>, quantized.dither)
          /\ unknown_dither
             => quantized.out = ErrorDiffuse(quantized.image,
                                             ResolvePalette(quantized.palette_name),
                                             Matrices.FLOYD_STEINBERG)

\* apply_palette has been called with the palette name "x" and the dither
\* mode "x", and a pixel of the image it returned has the green (0, 128, 0)
\* that only the preset "7" holds.
C30_Witness ==
    /\ quantized.palette_name = <<"x">>
    /\ quantized.dither = <<"x">>
    /\ \E k \in DOMAIN quantized.out.px : quantized.out.px[k] = <<0, 128, 0>>

(***************************************************************************)
(* Claims about a failing render (specification SpecRPFail)                *)
(***************************************************************************)

\* C21: every file in the content directory is the output of a render call
\* that returned; a render call whose resolver, compositor or quantizer
\* raises (a missing image, an unregistered widget, a failing stage) passes
\* the error on and leaves the content directory and the cache directory as
\* they were.
C21_FailedRenderWritesNothing ==
    /\ DOMAIN image_dir = { result[i].output_path : i \in 1..Len(result) }
    /\ \A r \in Requests \cup { PipelineRequest("image", <<"q">>, "{}", <<"3">>, <<"x">>),
                                PipelineRequest("widget", <<"v">>, "{}", <<"3">>, <<"x">>) },
          failing \in {"resolver", "compositor", "quantizer"} :
           LET res == RenderRaising(Disk(cache_dir, image_dir), stat, now, r, failing)
           IN /\ r.identifier = <<"q">> => res.raised = "FileNotFoundError"
              /\ r.identifier = <<"v">> => res.raised = "WidgetError"
              /\ failing = "resolver" => res.raised # "None"
              /\ res.raised # "None" => res.disk = Disk(cache_dir, image_dir)

\* A render call returned and wrote its output, and the call after it raised
\* FileNotFoundError: the content directory holds the one output file.
C21_Witness ==
    /\ raised = "FileNotFoundError"
    /\ Len(result) = 1
    /\ DOMAIN image_dir = {result[1].output_path}

(***************************************************************************)
(* Further claims about _TTLCache                                          *)
(***************************************************************************)

\* C34: the entry a cold-miss get_or_load stores with ttl > 0 is fresh at the
\* moment it is stored, however long the loader took.
C34_ColdMissEntryStoredFresh ==
    [][\A c \in Callers :
          (callers[c].pc = "loading" /\ callers'[c].pc = "done" /\ callers[c].args.ttl > 0)
          => is_fresh(entries'[callers[c].key], now)]_vars

\* C38: when the loader raises on the cold-miss path nothing is stored and
\* the lock is released; on a running event loop whose loaders terminate,
\* every caller waiting on a key leaves the wait: it returns, raises or is
\* cancelled (the model stops invoking the loader of a key after MaxLoads
\* invocations).
C38_LoaderFailureFreesWaiters ==
    /\ [][\A c \in Callers :
             (callers[c].pc = "loading" /\ callers'[c].pc = "raised")
             => /\ entries' = entries
                /\ ~locks'[callers[c].key].locked]_vars
    /\ \A c \in Callers :
          (callers[c].pc = "waiting")
          ~> (\/ callers[c].pc \in {"done", "raised", "cancelled"}
              \/ \E k \in Keys : callers[c].key = k /\ loads[k] = MaxLoads)

\* The loader of a cold miss raised while a second caller of the key waited
\* on the lock; with no entry stored, the second caller invoked the loader
\* itself, and it raised as well.
C38_Witness ==
    \E c1, c2 \in Callers :
        /\ c1 # c2
        /\ callers[c1].key = callers[c2].key
        /\ callers[c1].pc = "raised" /\ ~callers[c1].waited
        /\ callers[c2].pc = "raised" /\ callers[c2].waited
        /\ ~entries[callers[c1].key].present

\* C37: a loader of a key that is in flight when the store is cleared stays
\* the only loader of that key: no get_or_load issued after the clear starts
\* a second one while the first is still running.
C37_ClearKeepsSingleFlight ==
    \A k \in Keys :
        Cardinality(Loading(k) \cup (IF Orphan[k] \in DOMAIN locks THEN Loading(Orphan[k]) ELSE {})) <= 1

(***************************************************************************)
(* Further claims about the tiers                                          *)
(***************************************************************************)

\* C39: storing or invalidating a key of one namespace, or invalidating the
\* whole namespace, leaves what every tier returns for the entries it holds
\* of another namespace as it was (for a store, while the memory tier has
\* room).
C39_NamespacesIsolated ==
    \A q \in Pairs, b \in Pairs, tier \in {"memory", "files", "sqlite"} :
        (b[1] # q[1] /\ TierEnabled(tier) /\ TierGet(tier, Current, now, b[1], b[2]).hit)
        => LET Same(s) ==
                   /\ TierGet(tier, s, now, b[1], b[2]) = TierGet(tier, Current, now, b[1], b[2])
                   /\ TierRead(tier, s, now, b[1], b[2]) = TierRead(tier, Current, now, b[1], b[2])
           IN /\ Same(AfterInvalidate(Current, q[1], KeyOf(q[2])))
              /\ Same(AfterInvalidate(Current, q[1], KeyNone))
              /\ (tier = "memory" => Len(mem) < cfg.max_items)
                 => Same(AfterStore(Current, now, q[1], q[2], "p2", NoneOpt, "m1"))

(***************************************************************************)
(* Further claims about apply_palette (specification SpecAP)               *)
(***************************************************************************)

C33_ErrorSpreadsForwardByKernel ==
    LET Kernel(name, dx, dy) ==
            IF name = "FLOYD_STEINBERG"
            THEN CASE dx = 1 /\ dy = 0 -> 7
                   [] dx = -1 /\ dy = 1 -> 3
                   [] dx = 0 /\ dy = 1 -> 5
                   [] dx = 1 /\ dy = 1 -> 1
                   [] OTHER -> 0
            ELSE IF <<dx, dy>> \in {<<1, 0>>, <<2, 0>>, <<-1, 1>>, <<0, 1>>, <<1, 1>>, <<0, 2>>}
                 THEN 2 ELSE 0
        Matrix(name) == IF name = "FLOYD_STEINBERG" THEN Matrices.FLOYD_STEINBERG
                        ELSE Matrices.ATKINSON
        Clamped(v) == IF v > 16 * 255 THEN 16 * 255 ELSE IF v < 0 THEN 0 ELSE v
    IN /\ \A name \in {"FLOYD_STEINBERG", "ATKINSON"}, width \in 1..4, height \in 1..3 :
             \A n \in 0..(width * height - 1) :
                 LET ratio == Shares(width, height, n, Matrix(name))
                     received == { k \in 1..(width * height) : ratio[k] # 0 }
                     interior == /\ n % width >= 1
                                 /\ (n % width) + (IF name = "ATKINSON" THEN 2 ELSE 1) < width
                                 /\ (n \div width) + (IF name = "ATKINSON" THEN 2 ELSE 1) < height
                 IN /\ \A k \in 1..(width * height) :
                          /\ ratio[k] = Kernel(name, ((k - 1) % width) - (n % width),
                                               ((k - 1) \div width) - (n \div width))
                          /\ ratio[k] # 0 => k - 1 > n
                    /\ interior => Cardinality(received) = Len(Matrix(name))
       /\ (quantized.out.px # <<>> /\ Len(quantized.image.px) = 2
              /\ DitherMode(quantized.dither) # "none")
          => LET palette == ResolvePalette(quantized.palette_name)
                 name == IF DitherMode(quantized.dither) = "atkinson" THEN "ATKINSON"
                         ELSE "FLOYD_STEINBERG"
                 first == NearestColor([c \in 1..3 |-> 16 * quantized.image.px[1][c]], palette)
                 share == Kernel(name, quantized.image.width - 1, quantized.image.height - 1)
             IN /\ quantized.out.px[1] = first
                /\ quantized.out.px[2] =
                       NearestColor([c \in 1..3 |->
                           Clamped(16 * quantized.image.px[2][c]
                                   + (quantized.image.px[1][c] - first[c]) * share)], palette)

\* Floyd-Steinberg diffusion onto the preset "3" has been applied to a column
\* of two grey pixels: the first became white and 5/16 of its error made the
\* second black.
C33_Witness ==
    /\ quantized.dither = <<"x">>
    /\ quantized.palette_name = <<"3">>
    /\ quantized.image = [width |-> 1, height |-> 2, px |-> <<<<128, 128, 128>>, <<128, 128, 128>>>>]
    /\ quantized.out.px = <<<<255, 255, 255>>, <<0, 0, 0>>>>

\* C32: in the files tier a lookup that returns a payload returns it with the
\* created_at, expires_at and metadata of one single store of that key that
\* has written its sidecar: payload and sidecar come from the same store.
C32_LookupSeesOneStore ==
    \A t \in Threads :
        (threads[t].op = "read" /\ threads[t].pc = "done" /\ threads[t].args.tier = "files"
            /\ threads[t].out.exists)
        => \E u \in Threads :
              /\ threads[u].op = "store" /\ threads[u].pc = "done"
              /\ threads[u].args.tier = "files"
              /\ threads[u].args.ns = threads[t].args.ns
              /\ threads[u].args.key = threads[t].args.key
              /\ threads[t].out.payload = threads[u].args.payload
              /\ threads[t].out.metadata = threads[u].args.metadata
              /\ threads[t].out.created_at = threads[u].args.now
              /\ threads[t].out.expires_at = FilesExpiry(threads[u].args.ttl, threads[u].args.now)

\* C35: in the files tier and in the sqlite tier no step removes an entry
\* that is stored whole and has not expired: the invalidate of a lookup that
\* read an expired entry leaves a newer entry of the key in place.
C35_LookupKeepsNewerStore ==
    [][\A q \in Pairs :
          /\ (/\ ~FilesLocked
              /\ files[PathFor(q[1], q[2])].png # NoFile
              /\ files[PathFor(q[1], q[2])].meta.exists
              /\ ~Due(files[PathFor(q[1], q[2])].meta.expires_at))
             => files'[PathFor(q[1], q[2])].png # NoFile
          /\ (db[q].exists /\ ~Due(db[q].expires_at)) => db'[q].exists]_vars

\* C36: two render calls that have each chosen the name of their output file
\* have chosen different names, and the file at the path a call returned
\* holds the image of that call.
C36_OutputNamesDistinct ==
    /\ \A t, u \in Threads :
          (/\ t # u
           /\ threads[t].op = "render" /\ threads[t].pc \in {"save_output", "done"}
           /\ threads[u].op = "render" /\ threads[u].pc \in {"save_output", "done"}
           /\ threads[t].out.raised = "None" /\ threads[u].out.raised = "None")
          => threads[t].local.candidate # threads[u].local.candidate
    /\ \A t \in Threads :
          (threads[t].op = "render" /\ threads[t].pc = "done" /\ threads[t].out.raised = "None")
          => image_dir[threads[t].out.output_path] = PngEncode(threads[t].out.image)

\* C40: a render call that found the cache file reads a whole file: the call
\* is not reading while another call is writing the file, it does not raise,
\* and the bitmap it returns with from_cache = true is the bitmap of a call
\* that has finished writing the file.
C40_HitReadsFinishedFile ==
    \A t \in Threads :
        (threads[t].op = "render" /\ threads[t].out.from_cache)
        => /\ threads[t].out.raised = "None"
           /\ threads[t].pc # "open"
              => \E u \in Threads :
                    /\ threads[u].op = "render" /\ ~threads[u].out.from_cache
                    /\ threads[u].pc \in {"store_output", "save_output", "done"}
                    /\ threads[u].local.key = threads[t].local.key
                    /\ PngDecode(PngEncode(threads[u].local.image)) = threads[t].out.image

====
